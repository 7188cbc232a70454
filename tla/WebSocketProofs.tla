--------------------------- MODULE WebSocketProofs ---------------------------
(***************************************************************************)
(* Proofs about WebSocket, for any number of connections, descriptors,     *)
(* sessions, workers, frames and pushes.  Bound: who refers to whom, and   *)
(* that what is referred to is alive and owns its descriptor.  Linked: the *)
(* two maps of the manager and the descriptor table.  Ordered: how much of *)
(* what a client sent is gone, in the read buffer and still to come.       *)
(***************************************************************************)
EXTENDS WebSocket, SequenceTheorems, TLAPS

-----------------------------------------------------------------------------
(* The records                                                             *)

LEMMA DataFields ==
  ASSUME NEW d \in Data
  PROVE  /\ d.m_status \in {"HANDSHAKE", "CONNECTED"} /\ d.m_read_buf \in Seq(Units)
         /\ d.m_write_buf \in Seq(Sessions \cup {"101"}) /\ d.wire \in Seq(Units)
         /\ d.handled \in Seq({Junk} \cup (1..Frames))
BY DEF Data

LEMMA NoDataFields ==
  ASSUME NEW q \in Seq(Units)
  PROVE  /\ NoData \in Data /\ [NoData EXCEPT !.wire = q] \in Data
         /\ [NoData EXCEPT !.wire = q].m_status = "HANDSHAKE"
         /\ [NoData EXCEPT !.wire = q].m_read_buf = <<>>
         /\ [NoData EXCEPT !.wire = q].wire = q
         /\ [NoData EXCEPT !.wire = q].handled = <<>>
<1>1. /\ <<>> \in Seq(Units) /\ <<>> \in Seq(Sessions \cup {"101"})
      /\ <<>> \in Seq({Junk} \cup (1..Frames))
  BY EmptySeq
<1>2. QED
  BY <1>1 DEF NoData, Data

LEMMA HandshakeFields ==
  ASSUME NEW d \in Data, NEW a \in Seq(Sessions \cup {"101"}), NEW e,
         e = [d EXCEPT !.m_write_buf = a, !.m_status = "CONNECTED"]
  PROVE  /\ e \in Data /\ e.m_status = "CONNECTED" /\ e.m_read_buf = d.m_read_buf
         /\ e.wire = d.wire /\ e.handled = d.handled
BY DEF Data

LEMMA BoundFields ==
  ASSUME NEW d \in Data, NEW e, e = [d EXCEPT !.m_read_buf = <<>>]
  PROVE  /\ e \in Data /\ e.m_status = d.m_status /\ e.m_read_buf = <<>> /\ e.wire = d.wire
         /\ e.handled = d.handled
<1>1. <<>> \in Seq(Units)
  BY EmptySeq
<1>2. QED
  BY <1>1 DEF Data

LEMMA WriteFields ==
  ASSUME NEW d \in Data, NEW a \in Seq(Sessions \cup {"101"}), NEW e,
         e = [d EXCEPT !.m_write_buf = a]
  PROVE  /\ e \in Data /\ e.m_status = d.m_status /\ e.m_read_buf = d.m_read_buf
         /\ e.wire = d.wire /\ e.handled = d.handled
BY DEF Data

LEMMA JobFields ==
  /\ Idle \in Jobs /\ Idle.conn = None /\ Idle.at = "idle"
  /\ \A j \in Jobs : \/ j = Idle
                     \/ /\ j.conn \in Conns /\ j.conn # None
                        /\ j.at \in {"read", "process", "bind", "write", "init", "unbind"}
  /\ \A c \in Conns : \A l \in {"read", "process", "bind", "write", "init", "unbind"} :
       /\ [conn |-> c, at |-> l] \in Jobs /\ [conn |-> c, at |-> l] # Idle
       /\ [conn |-> c, at |-> l].conn = c /\ [conn |-> c, at |-> l].at = l
BY Distinct DEF Jobs, Idle

LEMMA PushFields ==
  /\ Quiet \in Pushes /\ Quiet.conn = None /\ Quiet.at = "idle"
  /\ \A p \in Pushes : \/ p = Quiet
                       \/ /\ p.conn \in Conns /\ p.conn # None /\ p.to \in Sessions
                          /\ p.at \in {"found", "stuck"}
  /\ \A c \in Conns, s \in Sessions : \A l \in {"found", "stuck"} :
       /\ [conn |-> c, to |-> s, at |-> l] \in Pushes /\ [conn |-> c, to |-> s, at |-> l] # Quiet
       /\ [conn |-> c, to |-> s, at |-> l].conn = c /\ [conn |-> c, to |-> s, at |-> l].to = s
       /\ [conn |-> c, to |-> s, at |-> l].at = l
BY Distinct DEF Pushes, Quiet

-----------------------------------------------------------------------------
(* Connections and descriptors                                             *)

UsersLive == \A f \in Fds : m_users[f] # None =>
               obj[m_users[f]] = "live" /\ m_sockfd[m_users[f]] = f

LiveOpen == \A c \in Conns : obj[c] = "live" => sock[m_sockfd[c]] = c

HasFd == \A c \in Conns : obj[c] # "new" => m_sockfd[c] \in Fds

(* A descriptor that outlives its connection is one that init revived.      *)
SockOwned == \A f \in Fds : sock[f] # None =>
               /\ m_sockfd[sock[f]] = f /\ obj[sock[f]] # "new"
               /\ obj[sock[f]] = "dead" => sock[f] \in revived

JobsFit == \A w \in Workers : job[w] # Idle =>
             obj[job[w].conn] = IF job[w].at = "unbind" THEN "dead" ELSE "live"

PushFits == push # Quiet => obj[push.conn] = IF push.at = "stuck" THEN "dead" ELSE "live"

(* A connection that left m_users is marked, so that its destructor closes  *)
(* the descriptor, or was marked before init revived it.                    *)
Marked == \A c \in Conns : obj[c] = "live" /\ m_users[m_sockfd[c]] # c =>
            m_is_closed[c] \/ c \in revived

Bound == UsersLive /\ LiveOpen /\ HasFd /\ SockOwned /\ JobsFit /\ PushFits /\ Marked

(* A handshake that is to be bound had a key.                               *)
Keyed == \A w \in Workers : job[w].at = "bind" => hello[job[w].conn] # NoKey

LEMMA OwnFd ==
  ASSUME TypeOK, Bound, NEW c \in Conns, obj[c] = "live"
  PROVE  /\ m_sockfd[c] \in Fds /\ sock[m_sockfd[c]] = c /\ m_users[m_sockfd[c]] \in {c, None}
         /\ c # None /\ \A f \in Fds : f # m_sockfd[c] => m_users[f] # c /\ sock[f] # c
<1>1. m_sockfd[c] \in Fds /\ sock[m_sockfd[c]] = c /\ c # None
  BY Distinct DEF Bound, HasFd, LiveOpen
<1>2. \A f \in Fds : m_users[f] \in Conns \cup {None}
  BY DEF TypeOK
<1>3. m_users[m_sockfd[c]] \in {c, None}
  BY <1>1, <1>2 DEF Bound, UsersLive, LiveOpen
<1>4. \A f \in Fds : f # m_sockfd[c] => m_users[f] # c /\ sock[f] # c
  BY <1>1 DEF Bound, UsersLive, SockOwned
<1>5. QED
  BY <1>1, <1>3, <1>4

LEMMA HoldersOf ==
  ASSUME TypeOK, NEW c \in Conns
  PROVE  /\ \A w \in Workers : Holders(c) = {w} =>
              /\ \A v \in Workers : v # w => ~Serves(v, c)
              /\ ~(push.conn = c /\ push.at = "found")
         /\ Holders(c) = {"push"} => \A v \in Workers : ~Serves(v, c)
         /\ Holders(c) = {} => /\ \A v \in Workers : ~Serves(v, c)
                               /\ ~(push.conn = c /\ push.at = "found")
         /\ \A v \in Workers : Serves(v, c) => v \in Holders(c)
<1>1. \A v \in Workers : v # "push" /\ (v \in Holders(c) <=> Serves(v, c))
  BY PushIsNoWorker DEF Holders
<1>2. "push" \in Holders(c) <=> push.conn = c /\ push.at = "found"
  BY PushIsNoWorker DEF Holders
<1>3. QED
  BY <1>1, <1>2

LEMMA Closing ==
  ASSUME TypeOK, Bound, NEW c \in Conns, obj[c] = "live", CloseConnection(m_sockfd[c])
  PROVE  /\ m_users' \in [Fds -> Conns \cup {None}] /\ m_users'[m_sockfd[c]] = None
         /\ epoll' \in [Fds -> {"off", "idle", "IN", "OUT"}]
         /\ m_is_closed' \in [Conns -> BOOLEAN]
         /\ \A f \in Fds : f # m_sockfd[c] => m_users'[f] = m_users[f]
         /\ \A d \in Conns : d # c => m_is_closed'[d] = m_is_closed[d]
         /\ m_is_closed'[c] \/ c \in revived
         /\ m_users[m_sockfd[c]] = c => m_is_closed'[c]
<1>1. /\ m_sockfd[c] \in Fds /\ m_users[m_sockfd[c]] \in {c, None} /\ c # None
  BY OwnFd
<1>2. CASE m_users[m_sockfd[c]] = None
  <2>1. m_users' = m_users /\ epoll' = epoll /\ m_is_closed' = m_is_closed
    BY <1>2 DEF CloseConnection
  <2>2. m_is_closed[c] \/ c \in revived
    BY <1>1, <1>2 DEF Bound, Marked
  <2>3. QED
    BY <1>1, <1>2, <2>1, <2>2 DEF TypeOK
<1>3. CASE m_users[m_sockfd[c]] = c
  <2>1. /\ m_users' = [m_users EXCEPT ![m_sockfd[c]] = None]
        /\ epoll' = [epoll EXCEPT ![m_sockfd[c]] = "off"]
        /\ m_is_closed' = [m_is_closed EXCEPT ![c] = TRUE]
    BY <1>1, <1>3 DEF CloseConnection
  <2>2. /\ m_users' \in [Fds -> Conns \cup {None}] /\ m_users'[m_sockfd[c]] = None
        /\ \A f \in Fds : f # m_sockfd[c] => m_users'[f] = m_users[f]
    BY <1>1, <2>1 DEF TypeOK
  <2>3. epoll' \in [Fds -> {"off", "idle", "IN", "OUT"}]
    BY <2>1 DEF TypeOK
  <2>4. /\ m_is_closed' \in [Conns -> BOOLEAN] /\ m_is_closed'[c]
        /\ \A d \in Conns : d # c => m_is_closed'[d] = m_is_closed[d]
    BY <2>1 DEF TypeOK
  <2>5. QED
    BY <2>2, <2>3, <2>4
<1>4. QED
  BY <1>1, <1>2, <1>3

(* The last holder of c lets go.                                            *)
LEMMA Gone ==
  ASSUME TypeOK, Bound, NEW c \in Conns, obj[c] = "live", Destroy(c), m_sockfd' = m_sockfd,
         m_users'[m_sockfd[c]] = None,
         \A f \in Fds : f # m_sockfd[c] => m_users'[f] = m_users[f],
         \A d \in Conns : d # c => m_is_closed'[d] = m_is_closed[d],
         m_is_closed'[c] \/ c \in revived', revived \subseteq revived',
         \A w \in Workers : \/ job'[w] = Idle
                            \/ job'[w] = job[w] /\ ~Serves(w, c)
                            \/ job'[w] = [conn |-> c, at |-> "unbind"],
         \/ push' = Quiet
         \/ push' = push /\ ~(push.conn = c /\ push.at = "found")
         \/ push'.conn = c /\ push'.at = "stuck"
  PROVE  Bound'
<1>1. /\ m_sockfd[c] \in Fds /\ sock[m_sockfd[c]] = c /\ c # None
      /\ \A f \in Fds : f # m_sockfd[c] => m_users[f] # c /\ sock[f] # c
  BY OwnFd
<1>2. obj'[c] = "dead" /\ \A d \in Conns : d # c => obj'[d] = obj[d]
  BY DEF Destroy, TypeOK
<1>3. /\ sock'[m_sockfd[c]] = IF m_is_closed'[c] THEN None ELSE c
      /\ \A f \in Fds : f # m_sockfd[c] => sock'[f] = sock[f]
  BY <1>1 DEF Destroy, TypeOK
<1>4. \A f \in Fds : m_users[f] \in Conns \cup {None} /\ sock[f] \in Conns \cup {None}
  BY DEF TypeOK
<1>5. UsersLive'
  BY <1>1, <1>2, <1>4 DEF Bound, UsersLive
<1>6. LiveOpen'
  <2> SUFFICES ASSUME NEW d \in Conns, obj'[d] = "live"
               PROVE  sock'[m_sockfd[d]] = d
    BY DEF LiveOpen
  <2>1. d # c /\ obj[d] = "live" /\ sock[m_sockfd[d]] = d /\ m_sockfd[d] \in Fds
    BY <1>2 DEF Bound, LiveOpen, HasFd
  <2>2. QED
    BY <1>1, <1>3, <2>1
<1>7. HasFd'
  BY <1>1, <1>2 DEF Bound, HasFd
<1>8. SockOwned'
  <2> SUFFICES ASSUME NEW f \in Fds, sock'[f] # None
               PROVE  /\ m_sockfd[sock'[f]] = f /\ obj'[sock'[f]] # "new"
                      /\ obj'[sock'[f]] = "dead" => sock'[f] \in revived'
    BY DEF SockOwned
  <2>1. CASE f = m_sockfd[c]
    BY <1>2, <1>3, <2>1
  <2>2. CASE f # m_sockfd[c]
    BY <1>1, <1>2, <1>3, <1>4, <2>2 DEF Bound, SockOwned
  <2>3. QED
    BY <2>1, <2>2
<1>9. JobsFit'
  <2> SUFFICES ASSUME NEW w \in Workers, job'[w] # Idle
               PROVE  obj'[job'[w].conn] = IF job'[w].at = "unbind" THEN "dead" ELSE "live"
    BY DEF JobsFit
  <2>1. CASE job'[w] = job[w] /\ ~Serves(w, c)
    <3>0. job[w] \in Jobs /\ job[w] # Idle
      BY <2>1 DEF TypeOK
    <3>1. job[w].conn \in Conns
      BY <3>0, JobFields
    <3>2. obj[job[w].conn] = IF job[w].at = "unbind" THEN "dead" ELSE "live"
      BY <2>1 DEF Bound, JobsFit
    <3>3. job[w].conn = c => job[w].at = "unbind"
      BY <2>1 DEF Serves
    <3>4. QED
      BY <1>2, <2>1, <3>1, <3>2, <3>3
  <2>2. CASE job'[w] = [conn |-> c, at |-> "unbind"]
    BY <1>2, <2>2
  <2>3. QED
    BY <2>1, <2>2
<1>10. PushFits'
  <2> SUFFICES ASSUME push' # Quiet
               PROVE  obj'[push'.conn] = IF push'.at = "stuck" THEN "dead" ELSE "live"
    BY DEF PushFits, Quiet
  <2>1. CASE push' = push /\ ~(push.conn = c /\ push.at = "found")
    <3>1. push.conn \in Conns /\ push.at \in {"found", "stuck"}
      BY <2>1, PushFields DEF TypeOK
    <3>2. obj[push.conn] = IF push.at = "stuck" THEN "dead" ELSE "live"
      BY <2>1 DEF Bound, PushFits
    <3>3. QED
      BY <1>2, <2>1, <3>1, <3>2
  <2>2. CASE push'.conn = c /\ push'.at = "stuck"
    BY <1>2, <2>2
  <2>3. QED
    BY <2>1, <2>2
<1>11. Marked'
  <2> SUFFICES ASSUME NEW d \in Conns, obj'[d] = "live", m_users'[m_sockfd[d]] # d
               PROVE  m_is_closed'[d] \/ d \in revived'
    BY DEF Marked
  <2>1. d # c /\ obj[d] = "live" /\ m_sockfd[d] \in Fds /\ m_sockfd[d] # m_sockfd[c]
    BY <1>1, <1>2, OwnFd
  <2>2. m_is_closed[d] \/ d \in revived
    BY <2>1 DEF Bound, Marked
  <2>3. QED
    BY <2>1, <2>2
<1>12. QED
  BY <1>5, <1>6, <1>7, <1>8, <1>9, <1>10, <1>11 DEF Bound

(* Nobody's last hold ends.                                                 *)
LEMMA Stays ==
  ASSUME TypeOK, Bound, obj' = obj, sock' = sock, m_sockfd' = m_sockfd, revived \subseteq revived',
         \A f \in Fds : m_users'[f] = m_users[f] \/ m_users'[f] = None,
         \A d \in Conns : obj[d] = "live" /\ m_users'[m_sockfd[d]] # d =>
                            m_is_closed'[d] \/ d \in revived',
         \A w \in Workers : \/ job'[w] = Idle \/ job'[w] = job[w]
                            \/ obj[job'[w].conn] = "live" /\ job'[w].at # "unbind",
         \/ push' = Quiet \/ push' = push
         \/ obj[push'.conn] = "live" /\ push'.at # "stuck"
  PROVE  Bound'
<1>1. UsersLive' /\ LiveOpen' /\ HasFd' /\ SockOwned'
  BY DEF Bound, UsersLive, LiveOpen, HasFd, SockOwned
<1>2. JobsFit'
  BY DEF Bound, JobsFit
<1>3. PushFits'
  BY DEF Bound, PushFits, Quiet
<1>4. Marked'
  BY DEF Marked
<1>5. QED
  BY <1>1, <1>2, <1>3, <1>4 DEF Bound

LEMMA Serving ==
  ASSUME TypeOK, Bound, NEW w \in Workers, job[w].at \in {"read", "process", "bind", "write", "init"}
  PROVE  /\ job[w].conn \in Conns /\ obj[job[w].conn] = "live" /\ job[w] # Idle
         /\ Serves(w, job[w].conn) /\ data[job[w].conn] \in Data
<1>1. job[w] \in Jobs
  BY DEF TypeOK
<1>2. job[w] # Idle /\ job[w].conn \in Conns
  BY <1>1, JobFields
<1>3. QED
  BY <1>2 DEF Bound, JobsFit, Serves, TypeOK

(* Worker w is done with c, which is destroyed or goes on with data d.      *)
LetGo(w, c, d) ==
  /\ \/ /\ obj'[c] = "dead" /\ data'[c] = NoData
        /\ sock'[m_sockfd[c]] = (IF m_is_closed'[c] THEN None ELSE c)
        /\ job'[w] = IF m_is_closed'[c] THEN [conn |-> c, at |-> "unbind"] ELSE Idle
     \/ /\ obj'[c] = "live" /\ data'[c] = d /\ sock'[m_sockfd[c]] = c /\ job'[w] = Idle
  /\ \A e \in Conns : e # c => data'[e] = data[e] /\ obj'[e] = obj[e]
  /\ \A v \in Workers : v # w => job'[v] = job[v]
  /\ \A f \in Fds : f # m_sockfd[c] => sock'[f] = sock[f]

(* A closure of worker w on connection c ends, after what it did to m_users *)
(* and to the mark of c.                                                    *)
LEMMA Released ==
  ASSUME TypeOK, Bound, NEW w \in Workers, NEW c \in Conns, c = job[w].conn,
         job[w].at \in {"read", "process", "bind", "write", "init"},
         NEW d \in Data, Release(w, c, d), m_sockfd' = m_sockfd, push' = push,
         m_users'[m_sockfd[c]] \in {c, None},
         \A f \in Fds : f # m_sockfd[c] => m_users'[f] = m_users[f],
         \A e \in Conns : e # c => m_is_closed'[e] = m_is_closed[e],
         m_users[m_sockfd[c]] # c => m_users'[m_sockfd[c]] # c,
         m_users'[m_sockfd[c]] # c => m_is_closed'[c] \/ c \in revived',
         revived \subseteq revived'
  PROVE  /\ Bound'
         /\ obj' \in [Conns -> {"new", "live", "dead"}] /\ sock' \in [Fds -> Conns \cup {None}]
         /\ job' \in [Workers -> Jobs] /\ data' \in [Conns -> Data]
         /\ LetGo(w, c, d)
<1>1. /\ obj[c] = "live" /\ job[w] # Idle /\ m_sockfd[c] \in Fds /\ c # None
      /\ sock[m_sockfd[c]] = c
      /\ \A f \in Fds : f # m_sockfd[c] => m_users[f] # c /\ sock[f] # c
  BY Serving, OwnFd
<1>2. /\ obj \in [Conns -> {"new", "live", "dead"}] /\ sock \in [Fds -> Conns \cup {None}]
      /\ job \in [Workers -> Jobs] /\ data \in [Conns -> Data]
  BY DEF TypeOK
<1>3. CASE Holders(c) = {w} /\ m_users'[m_sockfd[c]] # c
  <2>1. /\ Destroy(c)
        /\ job' = [job EXCEPT ![w] = IF m_is_closed'[c] THEN [conn |-> c, at |-> "unbind"]
                                                        ELSE Idle]
    BY <1>3 DEF Release
  <2>2. /\ job' \in [Workers -> Jobs] /\ \A v \in Workers : v # w => job'[v] = job[v]
        /\ job'[w] = IF m_is_closed'[c] THEN [conn |-> c, at |-> "unbind"] ELSE Idle
    <3>1. PICK j \in Jobs : j = IF m_is_closed'[c] THEN [conn |-> c, at |-> "unbind"] ELSE Idle
      BY JobFields
    <3>2. job' = [job EXCEPT ![w] = j]
      BY <2>1, <3>1
    <3>3. job' \in [Workers -> Jobs] /\ job'[w] = j /\ \A v \in Workers : v # w => job'[v] = job[v]
      BY <1>2, <3>2
    <3>4. QED
      BY <3>1, <3>3
  <2>3. \A v \in Workers : \/ job'[v] = Idle
                           \/ job'[v] = job[v] /\ ~Serves(v, c)
                           \/ job'[v] = [conn |-> c, at |-> "unbind"]
    BY <1>3, <2>2, HoldersOf
  <2>4. ~(push.conn = c /\ push.at = "found")
    BY <1>3, HoldersOf
  <2>5. Bound'
    BY <1>1, <1>3, <2>1, <2>3, <2>4, Gone
  <2>6. /\ obj' = [obj EXCEPT ![c] = "dead"] /\ data' = [data EXCEPT ![c] = NoData]
        /\ sock' = IF m_is_closed'[c] THEN [sock EXCEPT ![m_sockfd[c]] = None] ELSE sock
    BY <2>1 DEF Destroy
  <2>7. /\ obj' \in [Conns -> {"new", "live", "dead"}] /\ obj'[c] = "dead"
        /\ \A e \in Conns : e # c => obj'[e] = obj[e]
    BY <1>2, <2>6
  <2>8. /\ sock' \in [Fds -> Conns \cup {None}]
        /\ sock'[m_sockfd[c]] = (IF m_is_closed'[c] THEN None ELSE c)
        /\ \A f \in Fds : f # m_sockfd[c] => sock'[f] = sock[f]
    BY <1>1, <1>2, <2>6
  <2>9. NoData \in Data
    BY NoDataFields, EmptySeq
  <2>10. /\ data' \in [Conns -> Data] /\ data'[c] = NoData
         /\ \A e \in Conns : e # c => data'[e] = data[e]
    BY <1>2, <2>6, <2>9
  <2>11. QED
    BY <2>2, <2>5, <2>7, <2>8, <2>10 DEF LetGo
<1>4. CASE ~(Holders(c) = {w} /\ m_users'[m_sockfd[c]] # c)
  <2>1. /\ job' = [job EXCEPT ![w] = Idle] /\ data' = [data EXCEPT ![c] = d]
        /\ obj' = obj /\ sock' = sock
    BY <1>4 DEF Release
  <2>2. /\ job' \in [Workers -> Jobs] /\ job'[w] = Idle
        /\ \A v \in Workers : v # w => job'[v] = job[v]
    BY <1>2, <2>1, JobFields
  <2>3. /\ data' \in [Conns -> Data] /\ data'[c] = d
        /\ \A e \in Conns : e # c => data'[e] = data[e]
    BY <1>2, <2>1
  <2>4. \A f \in Fds : m_users'[f] = m_users[f] \/ m_users'[f] = None
    BY <1>1
  <2>5. ASSUME NEW e \in Conns, obj[e] = "live", m_users'[m_sockfd[e]] # e
        PROVE  m_is_closed'[e] \/ e \in revived'
    <3>1. CASE e = c
      BY <2>5, <3>1
    <3>2. CASE e # c
      <4>1. m_sockfd[e] \in Fds /\ m_sockfd[e] # m_sockfd[c]
        BY <1>1, <2>5, <3>2, OwnFd
      <4>2. m_is_closed[e] \/ e \in revived
        BY <2>5, <4>1 DEF Bound, Marked
      <4>3. QED
        BY <3>2, <4>2
    <3>3. QED
      BY <3>1, <3>2
  <2>6. Bound'
    BY <2>1, <2>2, <2>4, <2>5, Stays
  <2>7. QED
    BY <1>1, <1>2, <2>1, <2>2, <2>3, <2>6 DEF LetGo
<1>5. QED
  BY <1>3, <1>4

LEMMA ModTyped ==
  ASSUME TypeOK, NEW f, NEW l \in {"IN", "OUT"}, ModFd(f, l)
  PROVE  epoll' \in [Fds -> {"off", "idle", "IN", "OUT"}]
BY DEF TypeOK, ModFd

(* The two ways a closure ends: with closeConnection, or with modFd.        *)
LEMMA EndsClosed ==
  ASSUME TypeOK, Bound, NEW w \in Workers, NEW c \in Conns, c = job[w].conn,
         job[w].at \in {"read", "process", "bind", "write", "init"},
         NEW d \in Data, Release(w, c, d), CloseConnection(m_sockfd[c]),
         UNCHANGED <<hello, m_sockfd, maps, pushing, history>>
  PROVE  TypeOK' /\ Bound' /\ LetGo(w, c, d)
<1>1. /\ obj[c] = "live" /\ push' = push /\ revived' = revived /\ m_sockfd' = m_sockfd
  BY Serving DEF pushing, history
<1>2. /\ m_users' \in [Fds -> Conns \cup {None}] /\ m_users'[m_sockfd[c]] = None
      /\ epoll' \in [Fds -> {"off", "idle", "IN", "OUT"}]
      /\ m_is_closed' \in [Conns -> BOOLEAN]
      /\ \A f \in Fds : f # m_sockfd[c] => m_users'[f] = m_users[f]
      /\ \A e \in Conns : e # c => m_is_closed'[e] = m_is_closed[e]
      /\ m_is_closed'[c] \/ c \in revived
  BY <1>1, Closing
<1>3. c # None
  BY Distinct
<1>4. /\ Bound'
      /\ obj' \in [Conns -> {"new", "live", "dead"}] /\ sock' \in [Fds -> Conns \cup {None}]
      /\ job' \in [Workers -> Jobs] /\ data' \in [Conns -> Data]
      /\ LetGo(w, c, d)
  BY <1>1, <1>2, <1>3, Released
<1>5. TypeOK'
  BY <1>2, <1>4 DEF TypeOK, maps, pushing, history
<1>6. QED
  BY <1>4, <1>5

LEMMA EndsOpen ==
  ASSUME TypeOK, Bound, NEW w \in Workers, NEW c \in Conns, c = job[w].conn,
         job[w].at \in {"read", "process", "bind", "write", "init"},
         NEW d \in Data, Release(w, c, d), NEW l \in {"IN", "OUT"}, ModFd(m_sockfd[c], l),
         \/ m_is_closed' = m_is_closed /\ revived' = revived
         \/ /\ m_is_closed' = [m_is_closed EXCEPT ![c] = FALSE]
            /\ revived' = IF m_is_closed[c] THEN revived \cup {c} ELSE revived,
         UNCHANGED <<hello, m_users, m_sockfd, pushing, crossed>>,
         m_session_to_fd' \in [Sessions -> Fds \cup {None}],
         m_fd_to_session' \in [Fds -> Sessions \cup {None}],
         blurred' \in SUBSET Conns
  PROVE  TypeOK' /\ Bound' /\ LetGo(w, c, d)
<1>1. obj[c] = "live" /\ push' = push /\ pushes' = pushes
  BY Serving DEF pushing
<1>2. m_sockfd[c] \in Fds /\ m_users[m_sockfd[c]] \in {c, None}
  BY <1>1, OwnFd
<1>3. m_users[m_sockfd[c]] # c => m_is_closed[c] \/ c \in revived
  BY <1>1 DEF Bound, Marked
<1>4. /\ m_is_closed' \in [Conns -> BOOLEAN] /\ revived' \in SUBSET Conns
      /\ revived \subseteq revived'
      /\ \A e \in Conns : e # c => m_is_closed'[e] = m_is_closed[e]
      /\ m_users[m_sockfd[c]] # c => m_is_closed'[c] \/ c \in revived'
  <2>1. m_is_closed \in [Conns -> BOOLEAN] /\ revived \in SUBSET Conns
    BY DEF TypeOK
  <2>2. m_is_closed' \in [Conns -> BOOLEAN]
    BY <2>1
  <2>3. revived' \in SUBSET Conns /\ revived \subseteq revived'
    BY <2>1
  <2>4. \A e \in Conns : e # c => m_is_closed'[e] = m_is_closed[e]
    BY <2>1
  <2>5. m_users[m_sockfd[c]] # c => m_is_closed'[c] \/ c \in revived'
    BY <1>3, <2>1
  <2>6. QED
    BY <2>2, <2>3, <2>4, <2>5
<1>5. /\ Bound'
      /\ obj' \in [Conns -> {"new", "live", "dead"}] /\ sock' \in [Fds -> Conns \cup {None}]
      /\ job' \in [Workers -> Jobs] /\ data' \in [Conns -> Data]
      /\ LetGo(w, c, d)
  BY <1>1, <1>2, <1>4, Released
<1>6. epoll' \in [Fds -> {"off", "idle", "IN", "OUT"}]
  BY ModTyped
<1>7. TypeOK'
  BY <1>1, <1>4, <1>5, <1>6 DEF TypeOK
<1>8. QED
  BY <1>5, <1>7

-----------------------------------------------------------------------------
(* The workers' steps                                                      *)

LEMMA GivesUp ==
  ASSUME TypeOK, Bound, NEW w \in Workers, ReadFails(w) \/ WriteFails(w)
  PROVE  TypeOK' /\ Bound' /\ LetGo(w, job[w].conn, data[job[w].conn])
<1>1. PICK c : c = job[w].conn
  OBVIOUS
<1>2. job[w].at \in {"read", "process", "bind", "write", "init"}
  BY DEF ReadFails, WriteFails
<1>3. c \in Conns /\ data[c] \in Data
  BY <1>1, <1>2, Serving
<1>4. /\ CloseConnection(m_sockfd[c]) /\ Release(w, c, data[c])
      /\ UNCHANGED <<hello, m_sockfd, maps, pushing, history>>
  BY <1>1 DEF ReadFails, WriteFails
<1>5. QED
  BY <1>1, <1>2, <1>3, <1>4, EndsClosed

LEMMA Waits ==
  ASSUME TypeOK, Bound, NEW w \in Workers, ProcessFails(w) \/ WriteAgain(w)
  PROVE  TypeOK' /\ Bound' /\ LetGo(w, job[w].conn, data[job[w].conn])
<1>1. PICK c : c = job[w].conn
  OBVIOUS
<1>2. job[w].at \in {"read", "process", "bind", "write", "init"}
  BY DEF ProcessFails, WriteAgain
<1>3. c \in Conns /\ data[c] \in Data
  BY <1>1, <1>2, Serving
<1>4. /\ ModFd(m_sockfd[c], "IN") \/ ModFd(m_sockfd[c], "OUT")
      /\ Release(w, c, data[c]) /\ UNCHANGED <<m_users, m_is_closed>>
      /\ UNCHANGED <<hello, m_sockfd, maps, pushing, history>>
  BY <1>1 DEF ProcessFails, WriteAgain
<1>5. PICK l \in {"IN", "OUT"} : ModFd(m_sockfd[c], l)
  BY <1>4
<1>6. /\ m_session_to_fd' \in [Sessions -> Fds \cup {None}]
      /\ m_fd_to_session' \in [Fds -> Sessions \cup {None}]
      /\ blurred' \in SUBSET Conns /\ revived' = revived /\ crossed' = crossed
  BY <1>4 DEF TypeOK, maps, history
<1>7. QED
  BY <1>1, <1>2, <1>3, <1>4, <1>5, <1>6, EndsOpen

LEMMA BindStep ==
  ASSUME TypeOK, Bound, Keyed, NEW w \in Workers, BindSession(w), NEW c, c = job[w].conn
  PROVE  /\ TypeOK' /\ Bound' /\ c \in Conns /\ m_sockfd[c] \in Fds
         /\ \E d \in Data : /\ LetGo(w, c, d) /\ d.m_status = data[c].m_status
                            /\ d.m_read_buf = <<>> /\ d.wire = data[c].wire
                            /\ d.handled = data[c].handled
<1>1. job[w].at \in {"read", "process", "bind", "write", "init"}
  BY DEF BindSession
<1>2. c \in Conns /\ data[c] \in Data /\ obj[c] = "live" /\ m_sockfd[c] \in Fds
  BY <1>1, Serving, OwnFd
<1>3. PICK d : d = [data[c] EXCEPT !.m_read_buf = <<>>]
  OBVIOUS
<1>4. /\ d \in Data /\ d.m_status = data[c].m_status /\ d.m_read_buf = <<>>
      /\ d.wire = data[c].wire /\ d.handled = data[c].handled
  BY <1>2, <1>3, BoundFields
<1>5. /\ ModFd(m_sockfd[c], "OUT") /\ Release(w, c, d) /\ UNCHANGED <<m_users, m_is_closed>>
      /\ UNCHANGED <<hello, m_sockfd, pushing, revived, crossed>>
  BY <1>3 DEF BindSession
<1>6. blurred' \in SUBSET Conns
  BY <1>2 DEF BindSession, TypeOK
<1>7. /\ m_session_to_fd' \in [Sessions -> Fds \cup {None}]
      /\ m_fd_to_session' \in [Fds -> Sessions \cup {None}]
  <2>1. CASE UNCHANGED maps
    BY <2>1 DEF maps, TypeOK
  <2>2. CASE /\ m_session_to_fd' = [m_session_to_fd EXCEPT ![hello[c]] = m_sockfd[c]]
             /\ m_fd_to_session' = [m_fd_to_session EXCEPT ![m_sockfd[c]] = hello[c]]
             /\ hello[c] # None
    <3>1. hello[c] \in Sessions
      BY <1>2, <2>2 DEF BindSession, Keyed, TypeOK
    <3>2. QED
      BY <1>2, <2>2, <3>1 DEF TypeOK
  <2>3. QED
    BY <2>1, <2>2 DEF BindSession
<1>8. TypeOK' /\ Bound' /\ LetGo(w, c, d)
  BY <1>1, <1>2, <1>4, <1>5, <1>6, <1>7, EndsOpen
<1>9. QED
  BY <1>2, <1>4, <1>8

LEMMA MessageOK ==
  ASSUME NEW buf \in Seq(Units), NEW m \in ParsedFrames(buf), m \in Messages
  PROVE  /\ m.len \in 1..Len(buf) /\ m.msg \in {Junk} \cup (1..Frames)
         /\ SubSeq(buf, m.len + 1, Len(buf)) \in Seq(Units)
         /\ Len(SubSeq(buf, m.len + 1, Len(buf))) = Len(buf) - m.len
         /\ \A i \in 1..Len(buf) - m.len : SubSeq(buf, m.len + 1, Len(buf))[i] = buf[m.len + i]
         /\ buf[1][1] # 0 /\ buf[1][2] = 1 => m.msg = buf[1][1] /\ m.len = 2
<1>1. Len(buf) \in Nat
  BY LenProperties
<1>2. m.msg \in {Junk} \cup (1..Frames)
  BY DEF Messages
<1>3. m.len \in 1..Len(buf) /\ (buf[1][1] # 0 /\ buf[1][2] = 1 => m.msg = buf[1][1] /\ m.len = 2)
  BY <1>1 DEF ParsedFrames
<1>4. PICK n \in 1..Len(buf) : n = m.len
  BY <1>3
<1>5. /\ SubSeq(buf, n + 1, Len(buf)) \in Seq(Units)
      /\ Len(SubSeq(buf, n + 1, Len(buf))) = Len(buf) - n
      /\ \A i \in 1..Len(buf) - n : SubSeq(buf, n + 1, Len(buf))[i] = buf[n + i]
  BY <1>1, SubSeqProperties
<1>6. QED
  BY <1>2, <1>3, <1>4, <1>5

LEMMA FrameStep ==
  ASSUME TypeOK, Bound, NEW w \in Workers, NEW m \in Messages, HandleFrame(w, m),
         NEW c, c = job[w].conn
  PROVE  /\ TypeOK' /\ Bound' /\ c \in Conns
         /\ \E d \in Data : /\ LetGo(w, c, d) /\ d.m_status = data[c].m_status
                            /\ d.m_read_buf = SubSeq(data[c].m_read_buf, m.len + 1,
                                                     Len(data[c].m_read_buf))
                            /\ d.wire = data[c].wire /\ d.handled = Note(c, m.msg)
<1>1. job[w].at \in {"read", "process", "bind", "write", "init"}
  BY DEF HandleFrame
<1>2. c \in Conns /\ data[c] \in Data
  BY <1>1, Serving
<1>3. PICK d : d = [data[c] EXCEPT !.handled = Note(c, m.msg),
                                   !.m_read_buf = SubSeq(data[c].m_read_buf, m.len + 1,
                                                         Len(data[c].m_read_buf))]
  OBVIOUS
<1>4. data[c].m_read_buf \in Seq(Units) /\ data[c].handled \in Seq({Junk} \cup (1..Frames))
  BY <1>2, DataFields
<1>5. m \in ParsedFrames(data[c].m_read_buf)
  BY DEF HandleFrame
<1>6. /\ SubSeq(data[c].m_read_buf, m.len + 1, Len(data[c].m_read_buf)) \in Seq(Units)
      /\ m.msg \in {Junk} \cup (1..Frames)
  BY <1>4, <1>5, MessageOK
<1>7. Note(c, m.msg) \in Seq({Junk} \cup (1..Frames))
  BY <1>4, <1>6, EmptySeq, AppendProperties DEF Note
<1>8. /\ d \in Data /\ d.m_status = data[c].m_status
      /\ d.m_read_buf = SubSeq(data[c].m_read_buf, m.len + 1, Len(data[c].m_read_buf))
      /\ d.wire = data[c].wire /\ d.handled = Note(c, m.msg)
  <2>1. PICK x \in Data : x = data[c]
    BY <1>2
  <2>2. PICK a \in Seq({Junk} \cup (1..Frames)) : a = Note(c, m.msg)
    BY <1>7
  <2>3. PICK b \in Seq(Units) :
          b = SubSeq(data[c].m_read_buf, m.len + 1, Len(data[c].m_read_buf))
    BY <1>6
  <2>4. d = [x EXCEPT !.handled = a, !.m_read_buf = b]
    BY <1>3, <2>1, <2>2, <2>3, Zenon
  <2>5. /\ d \in Data /\ d.m_status = x.m_status /\ d.m_read_buf = b /\ d.wire = x.wire
        /\ d.handled = a
    BY <2>4 DEF Data
  <2>6. QED
    BY <2>1, <2>2, <2>3, <2>5
<1>9. /\ ModFd(m_sockfd[c], "OUT") /\ Release(w, c, d) /\ UNCHANGED <<m_users, m_is_closed>>
      /\ UNCHANGED <<hello, m_sockfd, maps, pushing, history>>
  BY <1>3 DEF HandleFrame
<1>10. /\ m_session_to_fd' \in [Sessions -> Fds \cup {None}]
       /\ m_fd_to_session' \in [Fds -> Sessions \cup {None}]
       /\ blurred' \in SUBSET Conns /\ revived' = revived /\ crossed' = crossed
  BY <1>9 DEF TypeOK, maps, history
<1>11. TypeOK' /\ Bound' /\ LetGo(w, c, d)
  BY <1>1, <1>2, <1>8, <1>9, <1>10, EndsOpen
<1>12. QED
  BY <1>2, <1>8, <1>11

LEMMA ReinitStep ==
  ASSUME TypeOK, Bound, NEW w \in Workers, Reinit(w), NEW c, c = job[w].conn
  PROVE  /\ TypeOK' /\ Bound' /\ c \in Conns
         /\ \E d \in Data :
              /\ LetGo(w, c, d)
              /\ \/ d = data[c]
                 \/ /\ d.m_status = "HANDSHAKE" /\ d.m_read_buf = <<>> /\ d.handled = <<>>
                    /\ d.wire = data[c].wire
<1>1. job[w].at \in {"read", "process", "bind", "write", "init"}
  BY DEF Reinit
<1>2. c \in Conns /\ data[c] \in Data
  BY <1>1, Serving
<1>3. PICK d : d = IF m_is_closed[c] THEN [NoData EXCEPT !.wire = data[c].wire] ELSE data[c]
  OBVIOUS
<1>4. data[c].wire \in Seq(Units)
  BY <1>2, DataFields
<1>5. /\ d \in Data
      /\ \/ d = data[c]
         \/ /\ d.m_status = "HANDSHAKE" /\ d.m_read_buf = <<>> /\ d.handled = <<>>
            /\ d.wire = data[c].wire
  <2>1. CASE m_is_closed[c]
    <3>1. d = [NoData EXCEPT !.wire = data[c].wire]
      BY <1>3, <2>1
    <3>2. QED
      BY <1>4, <3>1, NoDataFields
  <2>2. CASE ~m_is_closed[c]
    BY <1>2, <1>3, <2>2
  <2>3. QED
    BY <2>1, <2>2
<1>6. /\ ModFd(m_sockfd[c], "IN") /\ Release(w, c, d)
      /\ m_is_closed' = [m_is_closed EXCEPT ![c] = FALSE]
      /\ revived' = IF m_is_closed[c] THEN revived \cup {c} ELSE revived
      /\ UNCHANGED <<hello, m_users, m_sockfd, pushing, crossed>>
  BY <1>3 DEF Reinit
<1>7. /\ m_session_to_fd' \in [Sessions -> Fds \cup {None}]
      /\ m_fd_to_session' \in [Fds -> Sessions \cup {None}]
      /\ blurred' \in SUBSET Conns
  BY DEF TypeOK, maps, Reinit
<1>8. TypeOK' /\ Bound' /\ LetGo(w, c, d)
  BY <1>1, <1>2, <1>5, <1>6, <1>7, EndsOpen
<1>9. QED
  BY <1>2, <1>5, <1>8

-----------------------------------------------------------------------------
(* What a client sends                                                     *)

LEMMA UnitsOfFrames ==
  ASSUME NEW j \in Nat
  PROVE  /\ j \in 1..2 * (Frames + 1) => Unit(j) \in Units
         /\ j > 0 /\ Unit(j) = HandshakeEnd => j = 2
         /\ Unit(2 * j + 3)[1] = j + 1 /\ Unit(2 * j + 3)[2] = 1
<1>1. PICK i \in Int : i = (j - 1) \div 2 /\ (j - 1 = 2 * i \/ j - 1 = 2 * i + 1) /\ (j - 1) % 2 = j - 1 - 2 * i
  OBVIOUS
<1>2. Unit(j) = <<i, 1 + (j - 1 - 2 * i)>>
  BY <1>1 DEF Unit
<1>3. j \in 1..2 * (Frames + 1) => Unit(j) \in Units
  BY <1>1, <1>2, BoundsNat DEF Units
<1>4. HandshakeEnd = <<0, 2>>
  BY DEF HandshakeEnd, Unit
<1>5. j > 0 /\ Unit(j) = HandshakeEnd => j = 2
  BY <1>1, <1>2, <1>4
<1>6. Unit(2 * j + 3)[1] = j + 1 /\ Unit(2 * j + 3)[2] = 1
  <2>1. ((2 * j + 3) - 1) \div 2 = j + 1 /\ ((2 * j + 3) - 1) % 2 = 0
    OBVIOUS
  <2>2. QED
    BY <2>1 DEF Unit
<1>7. QED
  BY <1>3, <1>5, <1>6

LEMMA UnitsSent ==
  /\ UnitsFrom(1) \in Seq(Units) /\ Len(UnitsFrom(1)) = 2 * (Frames + 1)
  /\ \A i \in 1..2 * (Frames + 1) : UnitsFrom(1)[i] = Unit(i)
<1>1. PICK n \in Nat : n = 2 * (Frames + 1)
  BY BoundsNat
<1>2. UnitsFrom(1) = [i \in 1..n |-> Unit(i)]
  BY <1>1 DEF UnitsFrom
<1>3. \A i \in 1..n : Unit(i) \in Units
  BY <1>1, UnitsOfFrames
<1>4. [i \in 1..n |-> Unit(i)] \in Seq(Units)
  BY <1>3
<1>5. QED
  BY <1>1, <1>2, <1>4

-----------------------------------------------------------------------------
(* The other steps                                                         *)

LEMMA AcceptStep ==
  ASSUME TypeOK, Bound, NEW c \in Conns, NEW f \in Fds, NEW h \in Sessions \cup {None, NoKey},
         Accept(c, f, h)
  PROVE  /\ TypeOK' /\ Bound' /\ f # None /\ c # None
         /\ hello'[c] = h /\ obj'[c] = "live" /\ m_sockfd'[c] = f
         /\ data'[c] = [NoData EXCEPT !.wire = UnitsFrom(1)]
         /\ \A d \in Conns : d # c => /\ hello'[d] = hello[d] /\ obj'[d] = obj[d]
                                      /\ m_sockfd'[d] = m_sockfd[d] /\ data'[d] = data[d]
         /\ sock'[f] = c /\ \A g \in Fds : g # f => sock'[g] = sock[g]
<1>1. obj[c] = "new" /\ sock[f] = None /\ c # None /\ f # None
  BY Distinct DEF Accept
<1>2. hello'[c] = h /\ hello' \in [Conns -> Sessions \cup {None, NoKey}]
      /\ \A d \in Conns : d # c => hello'[d] = hello[d]
  BY DEF Accept, TypeOK
<1>3. obj'[c] = "live" /\ obj' \in [Conns -> {"new", "live", "dead"}]
      /\ \A d \in Conns : d # c => obj'[d] = obj[d]
  BY DEF Accept, TypeOK
<1>4. m_sockfd'[c] = f /\ m_sockfd' \in [Conns -> Fds \cup {None}]
      /\ \A d \in Conns : d # c => m_sockfd'[d] = m_sockfd[d]
  BY DEF Accept, TypeOK
<1>5. sock'[f] = c /\ sock' \in [Fds -> Conns \cup {None}]
      /\ \A g \in Fds : g # f => sock'[g] = sock[g]
  BY DEF Accept, TypeOK
<1>6. m_users'[f] = c /\ m_users' \in [Fds -> Conns \cup {None}]
      /\ \A g \in Fds : g # f => m_users'[g] = m_users[g]
  BY DEF Accept, TypeOK
<1>7. epoll' \in [Fds -> {"off", "idle", "IN", "OUT"}]
  BY DEF Accept, TypeOK
<1>8. /\ data'[c] = [NoData EXCEPT !.wire = UnitsFrom(1)] /\ data' \in [Conns -> Data]
      /\ \A d \in Conns : d # c => data'[d] = data[d]
  <2>1. PICK e \in Data : e = [NoData EXCEPT !.wire = UnitsFrom(1)]
    BY NoDataFields, UnitsSent
  <2>2. data' = [data EXCEPT ![c] = e]
    BY <2>1, Zenon DEF Accept
  <2>3. data'[c] = e /\ data' \in [Conns -> Data] /\ \A d \in Conns : d # c => data'[d] = data[d]
    BY <2>2 DEF TypeOK
  <2>4. QED
    BY <2>1, <2>3
<1>9. crossed' \in BOOLEAN
  BY DEF Accept, TypeOK
<1>10. /\ UNCHANGED <<job, m_is_closed, m_session_to_fd, m_fd_to_session, push, pushes, revived>>
       /\ blurred' = blurred
  BY DEF Accept, maps, pushing
<1>11. TypeOK'
  BY <1>2, <1>3, <1>4, <1>5, <1>6, <1>7, <1>8, <1>9, <1>10 DEF TypeOK
<1>12. Bound'
  <2>1. \A g \in Fds : m_users[g] \in Conns \cup {None} /\ sock[g] \in Conns \cup {None}
    BY DEF TypeOK
  <2>2. UsersLive'
    BY <1>1, <1>3, <1>4, <1>6, <2>1 DEF Bound, UsersLive
  <2>3. LiveOpen'
    <3> SUFFICES ASSUME NEW d \in Conns, obj'[d] = "live", d # c
                 PROVE  sock'[m_sockfd'[d]] = d
      BY <1>4, <1>5 DEF LiveOpen
    <3>1. obj[d] = "live" /\ m_sockfd[d] \in Fds /\ sock[m_sockfd[d]] = d /\ d # None
      BY <1>3, OwnFd
    <3>2. QED
      BY <1>1, <1>4, <1>5, <3>1
  <2>4. HasFd'
    BY <1>3, <1>4 DEF Bound, HasFd
  <2>5. SockOwned'
    <3> SUFFICES ASSUME NEW g \in Fds, sock'[g] # None, g # f
                 PROVE  /\ m_sockfd'[sock'[g]] = g /\ obj'[sock'[g]] # "new"
                        /\ obj'[sock'[g]] = "dead" => sock'[g] \in revived'
      BY <1>3, <1>4, <1>5 DEF SockOwned
    <3>1. /\ sock'[g] = sock[g] /\ sock[g] \in Conns /\ m_sockfd[sock[g]] = g
          /\ obj[sock[g]] # "new" /\ (obj[sock[g]] = "dead" => sock[g] \in revived)
      BY <1>5, <2>1 DEF Bound, SockOwned
    <3>2. sock[g] # c
      BY <1>1, <3>1
    <3>3. QED
      BY <1>3, <1>4, <1>10, <3>1, <3>2
  <2>6. JobsFit'
    <3> SUFFICES ASSUME NEW w \in Workers, job[w] # Idle
                 PROVE  obj'[job[w].conn] = IF job[w].at = "unbind" THEN "dead" ELSE "live"
      BY <1>10 DEF JobsFit
    <3>1. job[w] \in Jobs
      BY DEF TypeOK
    <3>2. job[w].conn \in Conns
      BY <3>1, JobFields
    <3>3. obj[job[w].conn] = IF job[w].at = "unbind" THEN "dead" ELSE "live"
      BY DEF Bound, JobsFit
    <3>4. QED
      BY <1>1, <1>3, <3>2, <3>3
  <2>7. PushFits'
    <3> SUFFICES ASSUME push # Quiet
                 PROVE  obj'[push.conn] = IF push.at = "stuck" THEN "dead" ELSE "live"
      BY <1>10 DEF PushFits
    <3>1. push.conn \in Conns
      BY PushFields DEF TypeOK
    <3>2. obj[push.conn] = IF push.at = "stuck" THEN "dead" ELSE "live"
      BY DEF Bound, PushFits
    <3>3. QED
      BY <1>1, <1>3, <3>1, <3>2
  <2>8. Marked'
    <3> SUFFICES ASSUME NEW d \in Conns, obj'[d] = "live", m_users'[m_sockfd'[d]] # d
                 PROVE  m_is_closed[d] \/ d \in revived
      BY <1>10 DEF Marked
    <3>1. d # c
      BY <1>4, <1>6
    <3>2. obj[d] = "live" /\ m_sockfd[d] \in Fds /\ sock[m_sockfd[d]] = d /\ d # None
      BY <1>3, <3>1, OwnFd
    <3>3. m_sockfd[d] # f /\ m_sockfd'[d] = m_sockfd[d]
      BY <1>1, <1>4, <3>1, <3>2
    <3>4. m_users[m_sockfd[d]] # d
      BY <1>6, <3>2, <3>3
    <3>5. QED
      BY <3>2, <3>4 DEF Bound, Marked
  <2>9. QED
    BY <2>2, <2>3, <2>4, <2>5, <2>6, <2>7, <2>8 DEF Bound
<1>13. QED
  BY <1>1, <1>2, <1>3, <1>4, <1>5, <1>8, <1>11, <1>12

LEMMA DispatchStep ==
  ASSUME TypeOK, Bound, NEW f \in Fds, NEW w \in Workers, Dispatch(f, w)
  PROVE  TypeOK' /\ Bound'
<1>1. PICK c : c = m_users[f]
  OBVIOUS
<1>2. c \in Conns /\ obj[c] = "live"
  BY <1>1 DEF Dispatch, TypeOK, Bound, UsersLive
<1>3. PICK l \in {"read", "write"} : l = IF epoll[f] = "IN" THEN "read" ELSE "write"
  OBVIOUS
<1>4. PICK j \in Jobs : j = [conn |-> c, at |-> l] /\ j.conn = c /\ j.at = l
  <2>1. l \in {"read", "process", "bind", "write", "init", "unbind"}
    OBVIOUS
  <2>2. /\ [conn |-> c, at |-> l] \in Jobs /\ [conn |-> c, at |-> l].conn = c
        /\ [conn |-> c, at |-> l].at = l
    BY <1>2, <2>1, JobFields
  <2>3. QED
    BY <2>2
<1>5. job' = [job EXCEPT ![w] = j]
  BY <1>1, <1>3, <1>4 DEF Dispatch
<1>6. /\ job' \in [Workers -> Jobs] /\ job'[w] = j /\ \A v \in Workers : v # w => job'[v] = job[v]
  BY <1>5 DEF TypeOK
<1>7. /\ UNCHANGED <<hello, sock, m_users, obj, m_sockfd, m_is_closed, data, m_session_to_fd,
                     m_fd_to_session, push, pushes, revived, crossed>>
      /\ epoll' \in [Fds -> {"off", "idle", "IN", "OUT"}] /\ blurred' \in SUBSET Conns
  <2>1. blurred' \in SUBSET Conns
    BY <1>1, <1>2 DEF Dispatch, TypeOK
  <2>2. epoll' \in [Fds -> {"off", "idle", "IN", "OUT"}]
    BY DEF Dispatch, TypeOK
  <2>3. UNCHANGED <<kernel, m_users, object, data, maps, pushing, revived, crossed>>
    BY DEF Dispatch
  <2>4. QED
    BY <2>1, <2>2, <2>3 DEF kernel, object, maps, pushing
<1>8. TypeOK'
  BY <1>6, <1>7 DEF TypeOK
<1>9. Bound'
  <2>1. \A v \in Workers : \/ job'[v] = job[v]
                           \/ obj[job'[v].conn] = "live" /\ job'[v].at # "unbind"
    BY <1>2, <1>3, <1>4, <1>6
  <2>2. \A d \in Conns : obj[d] = "live" /\ m_users'[m_sockfd[d]] # d =>
                            m_is_closed'[d] \/ d \in revived'
    BY <1>7 DEF Bound, Marked
  <2>3. QED
    BY <1>7, <2>1, <2>2, Stays
<1>10. QED
  BY <1>8, <1>9

(* A worker goes on with its closure.                                       *)
LEMMA GoesOn ==
  ASSUME TypeOK, Bound, NEW w \in Workers, NEW c \in Conns, obj[c] = "live",
         NEW l \in {"process", "bind", "init"}, job' = [job EXCEPT ![w] = [conn |-> c, at |-> l]],
         NEW e \in Data, data' = [data EXCEPT ![c] = e],
         UNCHANGED <<kernel, epoll, m_users, object, maps, pushing, history>>
  PROVE  TypeOK' /\ Bound'
<1>1. PICK j \in Jobs : j = [conn |-> c, at |-> l] /\ j.conn = c /\ j.at = l
  <2>1. l \in {"read", "process", "bind", "write", "init", "unbind"}
    OBVIOUS
  <2>2. /\ [conn |-> c, at |-> l] \in Jobs /\ [conn |-> c, at |-> l].conn = c
        /\ [conn |-> c, at |-> l].at = l
    BY <2>1, JobFields
  <2>3. QED
    BY <2>2
<1>2. job' = [job EXCEPT ![w] = j]
  BY <1>1
<1>3. /\ job' \in [Workers -> Jobs] /\ job'[w] = j /\ \A v \in Workers : v # w => job'[v] = job[v]
  BY <1>2 DEF TypeOK
<1>4. data' \in [Conns -> Data]
  BY DEF TypeOK
<1>5. UNCHANGED <<hello, sock, epoll, m_users, obj, m_sockfd, m_is_closed, m_session_to_fd,
                  m_fd_to_session, push, pushes, revived, crossed, blurred>>
  BY DEF kernel, object, maps, pushing, history
<1>6. TypeOK'
  BY <1>3, <1>4, <1>5 DEF TypeOK
<1>7. \A v \in Workers : \/ job'[v] = job[v]
                         \/ obj[job'[v].conn] = "live" /\ job'[v].at # "unbind"
  BY <1>1, <1>3
<1>8. \A d \in Conns : obj[d] = "live" /\ m_users'[m_sockfd[d]] # d =>
                            m_is_closed'[d] \/ d \in revived'
  BY <1>5 DEF Bound, Marked
<1>9. Bound'
  BY <1>5, <1>7, <1>8, Stays
<1>10. QED
  BY <1>6, <1>9

LEMMA Cut ==
  ASSUME NEW buf \in Seq(Units), NEW q \in Seq(Units), NEW n \in 1..Len(q)
  PROVE  /\ buf \o SubSeq(q, 1, n) \in Seq(Units) /\ SubSeq(q, n + 1, Len(q)) \in Seq(Units)
         /\ Len(buf \o SubSeq(q, 1, n)) = Len(buf) + n
         /\ Len(SubSeq(q, n + 1, Len(q))) = Len(q) - n
         /\ \A i \in 1..Len(buf) + n :
              (buf \o SubSeq(q, 1, n))[i] = IF i <= Len(buf) THEN buf[i] ELSE q[i - Len(buf)]
         /\ \A i \in 1..Len(q) - n : SubSeq(q, n + 1, Len(q))[i] = q[n + i]
<1> DEFINE a == SubSeq(q, 1, n)
<1>1. Len(buf) \in Nat /\ Len(q) \in Nat
  BY LenProperties
<1>2. a \in Seq(Units) /\ Len(a) = n /\ \A i \in 1..n : a[i] = q[i]
  BY <1>1, SubSeqProperties
<1>3. /\ SubSeq(q, n + 1, Len(q)) \in Seq(Units) /\ Len(SubSeq(q, n + 1, Len(q))) = Len(q) - n
      /\ \A i \in 1..Len(q) - n : SubSeq(q, n + 1, Len(q))[i] = q[n + i]
  BY <1>1, SubSeqProperties
<1> HIDE DEF a
<1>4. /\ buf \o a \in Seq(Units) /\ Len(buf \o a) = Len(buf) + n
      /\ \A i \in 1..Len(buf) + n : (buf \o a)[i] = IF i <= Len(buf) THEN buf[i] ELSE a[i - Len(buf)]
  BY <1>1, <1>2, ConcatProperties
<1>5. \A i \in 1..Len(buf) + n : (buf \o a)[i] = IF i <= Len(buf) THEN buf[i] ELSE q[i - Len(buf)]
  BY <1>1, <1>2, <1>4
<1>6. QED
  BY <1>3, <1>4, <1>5 DEF a

(* What is left of q when its first n units were taken.                     *)
Rest(q, n) == SubSeq(q, n + 1, Len(q))

LEMMA ReadStep ==
  ASSUME TypeOK, Bound, NEW w \in Workers, NEW n, Read(w, n), NEW c, c = job[w].conn
  PROVE  /\ TypeOK' /\ Bound' /\ c \in Conns /\ n \in 1..Len(data[c].wire)
         /\ \A e \in Conns : e # c => data'[e] = data[e]
         /\ data'[c].m_status = data[c].m_status /\ data'[c].handled = data[c].handled
         /\ data'[c].m_read_buf = data[c].m_read_buf \o SubSeq(data[c].wire, 1, n)
         /\ data'[c].wire = Rest(data[c].wire, n)
<1>1. job[w].at \in {"read", "process", "bind", "write", "init"} /\ n \in 1..Len(data[c].wire)
  BY DEF Read
<1>2. c \in Conns /\ data[c] \in Data /\ obj[c] = "live"
  BY <1>1, Serving
<1>3. PICK x \in Data : x = data[c]
  BY <1>2
<1>4. x.m_read_buf \in Seq(Units) /\ x.wire \in Seq(Units) /\ n \in 1..Len(x.wire)
  BY <1>1, <1>3, DataFields
<1>5. PICK a \in Seq(Units) : a = x.m_read_buf \o SubSeq(x.wire, 1, n)
  BY <1>4, Cut
<1>6. PICK b \in Seq(Units) : b = SubSeq(x.wire, n + 1, Len(x.wire)) /\ b = Rest(x.wire, n)
  BY <1>4, Cut DEF Rest
<1>7. PICK e : e = [x EXCEPT !.m_read_buf = a, !.wire = b]
  OBVIOUS
<1>8. /\ e \in Data /\ e.m_status = x.m_status /\ e.m_read_buf = a /\ e.wire = b
      /\ e.handled = x.handled
  BY <1>7 DEF Data
<1>9. data' = [data EXCEPT ![c] = e]
  BY <1>3, <1>5, <1>6, <1>7, Zenon DEF Read
<1>10. data'[c] = e /\ \A d \in Conns : d # c => data'[d] = data[d]
  BY <1>2, <1>9 DEF TypeOK
<1>11. /\ job' = [job EXCEPT ![w] = [conn |-> c, at |-> "process"]]
       /\ UNCHANGED <<kernel, epoll, m_users, object, maps, pushing, history>>
  BY DEF Read
<1>12. TypeOK' /\ Bound'
  BY <1>2, <1>8, <1>9, <1>11, GoesOn
<1>13. QED
  BY <1>1, <1>2, <1>3, <1>5, <1>6, <1>8, <1>10, <1>12

LEMMA WriteStep ==
  ASSUME TypeOK, Bound, NEW w \in Workers, WriteOK(w), NEW c, c = job[w].conn
  PROVE  /\ TypeOK' /\ Bound' /\ c \in Conns
         /\ \A e \in Conns : e # c => data'[e] = data[e]
         /\ data'[c].m_status = data[c].m_status /\ data'[c].handled = data[c].handled
         /\ data'[c].m_read_buf = data[c].m_read_buf /\ data'[c].wire = data[c].wire
<1>1. job[w].at \in {"read", "process", "bind", "write", "init"}
  BY DEF WriteOK
<1>2. c \in Conns /\ data[c] \in Data /\ obj[c] = "live"
  BY <1>1, Serving
<1>3. PICK x \in Data : x = data[c]
  BY <1>2
<1>4. <<>> \in Seq(Sessions \cup {"101"})
  BY EmptySeq
<1>5. PICK e : e = [x EXCEPT !.m_write_buf = <<>>]
  OBVIOUS
<1>6. /\ e \in Data /\ e.m_status = x.m_status /\ e.m_read_buf = x.m_read_buf
      /\ e.wire = x.wire /\ e.handled = x.handled
  BY <1>4, <1>5, WriteFields
<1>7. data' = [data EXCEPT ![c] = e]
  BY <1>3, <1>5, Zenon DEF WriteOK
<1>8. data'[c] = e /\ \A d \in Conns : d # c => data'[d] = data[d]
  BY <1>2, <1>7 DEF TypeOK
<1>9. /\ job' = [job EXCEPT ![w] = [conn |-> c, at |-> "init"]]
      /\ UNCHANGED <<kernel, epoll, m_users, object, maps, pushing, history>>
  BY DEF WriteOK
<1>10. TypeOK' /\ Bound'
  BY <1>2, <1>6, <1>7, <1>9, GoesOn
<1>11. QED
  BY <1>2, <1>3, <1>6, <1>8, <1>10

LEMMA HandshakeStep ==
  ASSUME TypeOK, Bound, NEW w \in Workers, HandleHandshake(w), NEW c, c = job[w].conn
  PROVE  /\ TypeOK' /\ Bound' /\ c \in Conns
         /\ \A e \in Conns : e # c => data'[e] = data[e]
         /\ data'[c].m_status = "CONNECTED" /\ data'[c].handled = data[c].handled
         /\ data'[c].m_read_buf = data[c].m_read_buf /\ data'[c].wire = data[c].wire
<1>1. job[w].at \in {"read", "process", "bind", "write", "init"}
  BY DEF HandleHandshake
<1>2. c \in Conns /\ data[c] \in Data /\ obj[c] = "live"
  BY <1>1, Serving
<1>3. PICK x \in Data : x = data[c]
  BY <1>2
<1>4. PICK a \in Seq(Sessions \cup {"101"}) : a = Append(x.m_write_buf, "101")
  BY DataFields, AppendProperties
<1>5. PICK e : e = [x EXCEPT !.m_write_buf = a, !.m_status = "CONNECTED"]
  OBVIOUS
<1>6. /\ e \in Data /\ e.m_status = "CONNECTED" /\ e.m_read_buf = x.m_read_buf
      /\ e.wire = x.wire /\ e.handled = x.handled
  BY <1>5, HandshakeFields
<1>7. data' = [data EXCEPT ![c] = e]
  BY <1>3, <1>4, <1>5, Zenon DEF HandleHandshake
<1>8. data'[c] = e /\ \A d \in Conns : d # c => data'[d] = data[d]
  BY <1>2, <1>7 DEF TypeOK
<1>9. /\ job' = [job EXCEPT ![w] = [conn |-> c, at |-> "bind"]]
      /\ UNCHANGED <<kernel, epoll, m_users, object, maps, pushing, history>>
  BY DEF HandleHandshake
<1>10. TypeOK' /\ Bound'
  BY <1>2, <1>6, <1>7, <1>9, GoesOn
<1>11. QED
  BY <1>2, <1>3, <1>6, <1>8, <1>10

LEMMA RemovedFd ==
  ASSUME TypeOK, NEW f \in Fds, RemoveFd(f)
  PROVE  /\ m_session_to_fd' \in [Sessions -> Fds \cup {None}]
         /\ m_fd_to_session' \in [Fds -> Sessions \cup {None}] /\ m_fd_to_session'[f] = None
         /\ \A g \in Fds : g # f => m_fd_to_session'[g] = m_fd_to_session[g]
         /\ \A s \in Sessions : m_session_to_fd'[s] = IF s = m_fd_to_session[f] THEN None
                                                      ELSE m_session_to_fd[s]
<1>1. m_fd_to_session[f] \in Sessions \cup {None} /\ None \notin Sessions
  BY Distinct DEF TypeOK
<1>2. /\ m_fd_to_session' \in [Fds -> Sessions \cup {None}] /\ m_fd_to_session'[f] = None
      /\ \A g \in Fds : g # f => m_fd_to_session'[g] = m_fd_to_session[g]
  BY DEF TypeOK, RemoveFd
<1>3. /\ m_session_to_fd' \in [Sessions -> Fds \cup {None}]
      /\ \A s \in Sessions : m_session_to_fd'[s] = IF s = m_fd_to_session[f] THEN None
                                                   ELSE m_session_to_fd[s]
  BY <1>1 DEF TypeOK, RemoveFd
<1>4. QED
  BY <1>2, <1>3

LEMMA UnbindStep ==
  ASSUME TypeOK, Bound, NEW w \in Workers, Unbind(w)
  PROVE  /\ TypeOK' /\ Bound' /\ job[w].conn \in Conns /\ obj[job[w].conn] = "dead"
         /\ m_sockfd[job[w].conn] \in Fds /\ RemoveFd(m_sockfd[job[w].conn])
         /\ job'[w] = Idle /\ \A v \in Workers : v # w => job'[v] = job[v]
<1>1. job[w] \in Jobs /\ job[w].at = "unbind"
  BY DEF TypeOK, Unbind
<1>2. job[w].conn \in Conns /\ job[w] # Idle
  BY <1>1, JobFields
<1>3. obj[job[w].conn] = "dead" /\ m_sockfd[job[w].conn] \in Fds
  BY <1>1, <1>2 DEF Bound, JobsFit, HasFd
<1>4. /\ RemoveFd(m_sockfd[job[w].conn]) /\ job' = [job EXCEPT ![w] = Idle]
      /\ UNCHANGED <<kernel, epoll, m_users, object, data, pushing, history>>
  BY DEF Unbind
<1>5. /\ m_session_to_fd' \in [Sessions -> Fds \cup {None}]
      /\ m_fd_to_session' \in [Fds -> Sessions \cup {None}]
  BY <1>3, <1>4, RemovedFd
<1>6. /\ job' \in [Workers -> Jobs] /\ job'[w] = Idle
      /\ \A v \in Workers : v # w => job'[v] = job[v]
  <2>1. PICK j \in Jobs : j = Idle
    BY JobFields
  <2>2. job' = [job EXCEPT ![w] = j]
    BY <1>4, <2>1
  <2>3. /\ job' \in [Workers -> Jobs] /\ job'[w] = j
        /\ \A v \in Workers : v # w => job'[v] = job[v]
    BY <2>2 DEF TypeOK
  <2>4. QED
    BY <2>1, <2>3
<1>7. UNCHANGED <<hello, sock, epoll, m_users, obj, m_sockfd, m_is_closed, data,
                  push, pushes, revived, crossed, blurred>>
  BY <1>4 DEF kernel, object, pushing, history
<1>8. TypeOK'
  BY <1>5, <1>6, <1>7 DEF TypeOK
<1>9. \A d \in Conns : obj[d] = "live" /\ m_users'[m_sockfd[d]] # d =>
                            m_is_closed'[d] \/ d \in revived'
  BY <1>7 DEF Bound, Marked
<1>10. Bound'
  BY <1>6, <1>7, <1>9, Stays
<1>11. QED
  BY <1>2, <1>3, <1>4, <1>6, <1>8, <1>10

LEMMA PushFindStep ==
  ASSUME TypeOK, Bound, NEW s \in Sessions, PushFind(s)
  PROVE  /\ TypeOK' /\ Bound' /\ m_session_to_fd[s] \in Fds
         /\ m_users[m_session_to_fd[s]] \in Conns
         /\ push'.conn = m_users[m_session_to_fd[s]] /\ push'.to = s /\ push'.at = "found"
<1>1. PICK f : f = m_session_to_fd[s]
  OBVIOUS
<1>2. f \in Fds /\ m_users[f] \in Conns /\ obj[m_users[f]] = "live"
  BY <1>1 DEF PushFind, TypeOK, Bound, UsersLive
<1>3. PICK c \in Conns : c = m_users[f]
  BY <1>2
<1>4. push' = [conn |-> c, to |-> s, at |-> "found"]
  BY <1>1, <1>3 DEF PushFind
<1>5. push' \in Pushes /\ push'.conn = c /\ push'.to = s /\ push'.at = "found"
  BY <1>4 DEF Pushes
<1>6. pushes' \in 0..MaxPushes
  BY BoundsNat DEF PushFind, TypeOK
<1>7. UNCHANGED <<hello, sock, epoll, m_users, obj, m_sockfd, m_is_closed, data, job,
                  m_session_to_fd, m_fd_to_session, revived, crossed, blurred>>
  BY DEF PushFind, kernel, object, maps, history
<1>8. TypeOK'
  BY <1>5, <1>6, <1>7 DEF TypeOK
<1>9. \A d \in Conns : obj[d] = "live" /\ m_users'[m_sockfd[d]] # d =>
                            m_is_closed'[d] \/ d \in revived'
  BY <1>7 DEF Bound, Marked
<1>10. obj[push'.conn] = "live" /\ push'.at # "stuck"
  BY <1>2, <1>3, <1>5
<1>11. Bound'
  BY <1>7, <1>9, <1>10, Stays
<1>12. QED
  BY <1>1, <1>2, <1>3, <1>5, <1>8, <1>11

(* The timer of a connection, and the destructor where nobody else holds it. *)
LEMMA ExpireStep ==
  ASSUME TypeOK, Bound, NEW f \in Fds, Expire(f), NEW c, c = m_users[f]
  PROVE  /\ TypeOK' /\ Bound' /\ c \in Conns /\ obj[c] = "live" /\ m_sockfd[c] = f
         /\ sock[f] = c
         /\ \/ /\ obj'[c] = "dead" /\ sock'[f] = None /\ RemoveFd(f)
               /\ \A e \in Conns : e # c => data'[e] = data[e] /\ obj'[e] = obj[e]
               /\ \A g \in Fds : g # f => sock'[g] = sock[g]
            \/ UNCHANGED <<obj, sock, data, maps>>
<1>1. c \in Conns /\ obj[c] = "live" /\ m_sockfd[c] = f
  BY DEF Expire, TypeOK, Bound, UsersLive
<1>2. sock[f] = c /\ m_users[f] = c
  BY <1>1, OwnFd
<1>3. CloseConnection(f)
  BY DEF Expire
<1>4. /\ m_users' \in [Fds -> Conns \cup {None}] /\ m_users'[f] = None
      /\ epoll' \in [Fds -> {"off", "idle", "IN", "OUT"}]
      /\ m_is_closed' \in [Conns -> BOOLEAN]
      /\ \A g \in Fds : g # f => m_users'[g] = m_users[g]
      /\ \A d \in Conns : d # c => m_is_closed'[d] = m_is_closed[d]
      /\ m_is_closed'[c]
  BY <1>1, <1>2, <1>3, Closing
<1>5. UNCHANGED <<hello, job, m_sockfd, push, pushes, revived, crossed, blurred>>
  BY DEF Expire, pushing, history
<1>6. CASE Holders(c) = {} /\ Destroy(c) /\ RemoveFd(f)
  <2>1. /\ m_session_to_fd' \in [Sessions -> Fds \cup {None}]
        /\ m_fd_to_session' \in [Fds -> Sessions \cup {None}]
    BY <1>6, RemovedFd
  <2>2. obj' \in [Conns -> {"new", "live", "dead"}] /\ obj'[c] = "dead"
        /\ \A e \in Conns : e # c => obj'[e] = obj[e]
    BY <1>1, <1>6 DEF Destroy, TypeOK
  <2>3. sock' \in [Fds -> Conns \cup {None}] /\ sock'[f] = None
        /\ \A g \in Fds : g # f => sock'[g] = sock[g]
    BY <1>1, <1>4, <1>6 DEF Destroy, TypeOK
  <2>4. data' \in [Conns -> Data] /\ \A e \in Conns : e # c => data'[e] = data[e]
    <3>1. PICK z \in Data : z = NoData
      BY NoDataFields, EmptySeq
    <3>2. data' = [data EXCEPT ![c] = z]
      BY <1>6, <3>1 DEF Destroy
    <3>3. QED
      BY <1>1, <3>2 DEF TypeOK
  <2>5. TypeOK'
    BY <1>4, <1>5, <2>1, <2>2, <2>3, <2>4 DEF TypeOK
  <2>6. (\A v \in Workers : ~Serves(v, c)) /\ ~(push.conn = c /\ push.at = "found")
    BY <1>1, <1>6, HoldersOf
  <2>7. Bound'
    BY <1>1, <1>4, <1>5, <1>6, <2>6, Gone
  <2>8. QED
    BY <1>1, <1>2, <1>6, <2>2, <2>3, <2>4, <2>5, <2>7
<1>7. CASE UNCHANGED <<obj, sock, data, maps>>
  <2>1. TypeOK'
    BY <1>4, <1>5, <1>7 DEF TypeOK, maps
  <2>2. \A g \in Fds : m_users'[g] = m_users[g] \/ m_users'[g] = None
    BY <1>4
  <2>3. ASSUME NEW d \in Conns, obj[d] = "live", m_users'[m_sockfd[d]] # d
        PROVE  m_is_closed'[d] \/ d \in revived'
    <3>1. CASE d = c
      BY <1>4, <3>1
    <3>2. CASE d # c
      <4>1. m_sockfd[d] \in Fds /\ m_sockfd[d] # f
        BY <1>2, <2>3, <3>2, OwnFd
      <4>2. m_is_closed[d] \/ d \in revived
        BY <1>4, <2>3, <4>1 DEF Bound, Marked
      <4>3. QED
        BY <1>4, <1>5, <3>2, <4>2
    <3>3. QED
      BY <3>1, <3>2
  <2>4. Bound'
    BY <1>5, <1>7, <2>2, <2>3, Stays
  <2>5. QED
    BY <1>1, <1>2, <1>7, <2>1, <2>4
<1>8. QED
  BY <1>6, <1>7 DEF Expire

LEMMA PushSendStep ==
  ASSUME TypeOK, Bound, PushSend, NEW c, c = push.conn
  PROVE  /\ TypeOK' /\ Bound' /\ c \in Conns /\ obj[c] = "live" /\ push.to \in Sessions
         /\ \A e \in Conns : e # c => data'[e] = data[e] /\ obj'[e] = obj[e]
         /\ \A f \in Fds : f # m_sockfd[c] => sock'[f] = sock[f]
         /\ \/ /\ obj'[c] = "dead"
               /\ sock'[m_sockfd[c]] = (IF m_is_closed[c] THEN None ELSE c)
               /\ push' = IF m_is_closed[c] THEN [conn |-> c, to |-> push.to, at |-> "stuck"]
                          ELSE Quiet
            \/ /\ obj'[c] = "live" /\ push' = Quiet /\ sock'[m_sockfd[c]] = sock[m_sockfd[c]]
               /\ data'[c].m_status = data[c].m_status /\ data'[c].handled = data[c].handled
               /\ data'[c].m_read_buf = data[c].m_read_buf /\ data'[c].wire = data[c].wire
<1>1. push.at = "found" /\ push \in Pushes
  BY DEF PushSend, TypeOK
<1>2. push # Quiet /\ c \in Conns /\ push.to \in Sessions
  BY <1>1, PushFields
<1>3. obj[c] = "live"
  BY <1>1, <1>2 DEF Bound, PushFits
<1>4. m_sockfd[c] \in Fds /\ m_users[m_sockfd[c]] \in {c, None} /\ sock[m_sockfd[c]] = c
  BY <1>2, <1>3, OwnFd
<1>5. /\ epoll' \in [Fds -> {"off", "idle", "IN", "OUT"}] /\ m_is_closed' = m_is_closed
      /\ UNCHANGED <<hello, m_users, job, m_sockfd, m_session_to_fd, m_fd_to_session,
                     pushes, revived, crossed, blurred>>
  <2>1. ModFd(m_sockfd[c], "OUT")
    BY DEF PushSend
  <2>2. QED
    BY <2>1, ModTyped DEF PushSend, maps, history
<1>6. /\ obj \in [Conns -> {"new", "live", "dead"}] /\ sock \in [Fds -> Conns \cup {None}]
      /\ data \in [Conns -> Data]
  BY DEF TypeOK
<1>7. CASE /\ Holders(c) = {"push"} /\ m_users[m_sockfd[c]] # c /\ Destroy(c)
           /\ push' = IF m_is_closed[c] THEN [conn |-> c, to |-> push.to, at |-> "stuck"]
                      ELSE Quiet
  <2>1. push' \in Pushes /\ (push' = Quiet \/ (push'.conn = c /\ push'.at = "stuck"))
    <3>1. CASE m_is_closed[c]
      <4>1. push' = [conn |-> c, to |-> push.to, at |-> "stuck"]
        BY <1>7, <3>1
      <4>2. QED
        BY <1>2, <4>1 DEF Pushes
    <3>2. CASE ~m_is_closed[c]
      <4>1. push' = Quiet
        BY <1>7, <3>2
      <4>2. QED
        BY <4>1, PushFields
    <3>3. QED
      BY <3>1, <3>2
  <2>2. obj' \in [Conns -> {"new", "live", "dead"}] /\ obj'[c] = "dead"
        /\ \A e \in Conns : e # c => obj'[e] = obj[e]
    BY <1>2, <1>6, <1>7 DEF Destroy
  <2>3. sock' \in [Fds -> Conns \cup {None}]
        /\ sock'[m_sockfd[c]] = (IF m_is_closed[c] THEN None ELSE c)
        /\ \A g \in Fds : g # m_sockfd[c] => sock'[g] = sock[g]
    BY <1>4, <1>5, <1>6, <1>7 DEF Destroy
  <2>4. data' \in [Conns -> Data] /\ \A e \in Conns : e # c => data'[e] = data[e]
    <3>1. PICK z \in Data : z = NoData
      BY NoDataFields, EmptySeq
    <3>2. data' = [data EXCEPT ![c] = z]
      BY <1>7, <3>1 DEF Destroy
    <3>3. QED
      BY <1>2, <1>6, <3>2
  <2>5. TypeOK'
    BY <1>5, <2>1, <2>2, <2>3, <2>4 DEF TypeOK
  <2>6. \A v \in Workers : ~Serves(v, c)
    BY <1>2, <1>7, HoldersOf
  <2>7. m_is_closed'[c] \/ c \in revived'
    BY <1>2, <1>3, <1>5, <1>7 DEF Bound, Marked
  <2>8. m_users'[m_sockfd[c]] = None
    BY <1>4, <1>5, <1>7
  <2>9. Bound'
    BY <1>2, <1>3, <1>5, <1>7, <2>1, <2>6, <2>7, <2>8, Gone
  <2>10. QED
    BY <1>2, <1>3, <1>7, <2>2, <2>3, <2>4, <2>5, <2>9
<1>8. CASE /\ push' = Quiet /\ obj' = obj /\ sock' = sock
           /\ data' = [data EXCEPT ![c] = [data[c] EXCEPT
                         !.m_write_buf = Append(data[c].m_write_buf, push.to)]]
  <2>1. /\ data' \in [Conns -> Data] /\ \A e \in Conns : e # c => data'[e] = data[e]
        /\ data'[c].m_status = data[c].m_status /\ data'[c].handled = data[c].handled
        /\ data'[c].m_read_buf = data[c].m_read_buf /\ data'[c].wire = data[c].wire
    <3>1. PICK x \in Data : x = data[c]
      BY <1>2, <1>6
    <3>2. x.m_write_buf \in Seq(Sessions \cup {"101"})
      BY DataFields
    <3>3. PICK a \in Seq(Sessions \cup {"101"}) : a = Append(x.m_write_buf, push.to)
      BY <1>2, <3>2, AppendProperties
    <3>4. PICK e : e = [x EXCEPT !.m_write_buf = a]
      OBVIOUS
    <3>5. /\ e \in Data /\ e.m_status = x.m_status /\ e.m_read_buf = x.m_read_buf
          /\ e.wire = x.wire /\ e.handled = x.handled
      BY <3>4, WriteFields
    <3>6. data' = [data EXCEPT ![c] = e]
      BY <1>8, <3>1, <3>3, <3>4, Zenon
    <3>7. /\ data' \in [Conns -> Data] /\ data'[c] = e
          /\ \A d \in Conns : d # c => data'[d] = data[d]
      BY <1>2, <1>6, <3>5, <3>6
    <3>8. QED
      BY <3>1, <3>5, <3>7
  <2>2. push' \in Pushes
    BY <1>8, PushFields
  <2>3. TypeOK'
    BY <1>5, <1>6, <1>8, <2>1, <2>2 DEF TypeOK
  <2>4. \A d \in Conns : obj[d] = "live" /\ m_users'[m_sockfd[d]] # d =>
                            m_is_closed'[d] \/ d \in revived'
    BY <1>5 DEF Bound, Marked
  <2>5. Bound'
    BY <1>5, <1>8, <2>4, Stays
  <2>6. QED
    BY <1>2, <1>3, <1>8, <2>1, <2>3, <2>5
<1>9. QED
  BY <1>7, <1>8 DEF PushSend

(* What a step does to the closures: nothing, a worker takes one, or a      *)
(* worker ends one or goes on with it.                                      *)
Ends(w) == job'[w] = Idle \/ job'[w].at = "unbind"
Goes(w) == /\ job'[w].conn = job[w].conn /\ job[w].at # "unbind" /\ job'[w].at # "unbind"
           /\ job'[w].at = "bind" => hello[job[w].conn] # NoKey
Moves(w) == (\A v \in Workers : v # w => job'[v] = job[v]) /\ (Ends(w) \/ Goes(w))

LEMMA ReleaseMoves ==
  ASSUME TypeOK, NEW w \in Workers, NEW c, NEW d, Release(w, c, d)
  PROVE  Moves(w)
<1>1. PICK j : job' = [job EXCEPT ![w] = j] /\ (j = Idle \/ j = [conn |-> c, at |-> "unbind"])
  BY DEF Release
<1>2. job'[w] = j /\ \A v \in Workers : v # w => job'[v] = job[v]
  BY <1>1 DEF TypeOK
<1>3. QED
  BY <1>1, <1>2 DEF Moves, Ends

LEMMA JobMoves ==
  ASSUME TypeOK, Next
  PROVE  \/ /\ job' = job /\ blurred' = blurred
            /\ \/ hello' = hello
               \/ \E c \in Conns, f \in Fds, h \in Sessions \cup {None, NoKey} : Accept(c, f, h)
         \/ \E f \in Fds, w \in Workers : Dispatch(f, w)
         \/ hello' = hello /\ blurred \subseteq blurred' /\ \E w \in Workers : Moves(w)
<1>1. CASE \E c \in Conns, f \in Fds, h \in Sessions \cup {None, NoKey} : Accept(c, f, h)
  BY <1>1 DEF Accept
<1>2. ASSUME NEW f \in Fds, Expire(f)
      PROVE  job' = job /\ hello' = hello /\ blurred' = blurred
  BY <1>2 DEF Expire, history
<1>3. CASE (\E s \in Sessions : PushFind(s)) \/ PushSend
  BY <1>3 DEF PushFind, PushSend, kernel, history
<1>4. ASSUME NEW w \in Workers,
             \/ ReadFails(w) \/ BindSession(w) \/ ProcessFails(w)
             \/ \E m \in Messages : HandleFrame(w, m)
             \/ WriteAgain(w) \/ WriteFails(w) \/ Reinit(w)
      PROVE  hello' = hello /\ blurred \subseteq blurred' /\ Moves(w)
  <2>1. (\E c, d : Release(w, c, d)) /\ hello' = hello
    BY <1>4 DEF ReadFails, BindSession, ProcessFails, HandleFrame, WriteAgain, WriteFails, Reinit
  <2>2. blurred \subseteq blurred'
    BY <1>4 DEF ReadFails, BindSession, ProcessFails, HandleFrame, WriteAgain, WriteFails, Reinit,
                history
  <2>3. QED
    BY <2>1, <2>2, ReleaseMoves
<1>5. ASSUME NEW w \in Workers, (\E n : Read(w, n)) \/ HandleHandshake(w) \/ WriteOK(w)
      PROVE  hello' = hello /\ blurred \subseteq blurred' /\ Moves(w)
  <2>1. PICK l \in {"process", "bind", "init"} :
          /\ job' = [job EXCEPT ![w] = [conn |-> job[w].conn, at |-> l]]
          /\ l = "bind" => hello[job[w].conn] # NoKey
    BY <1>5 DEF Read, HandleHandshake, WriteOK
  <2>2. /\ job'[w].conn = job[w].conn /\ job'[w].at = l
        /\ \A v \in Workers : v # w => job'[v] = job[v]
    BY <2>1 DEF TypeOK
  <2>3. job[w].at # "unbind" /\ hello' = hello /\ blurred' = blurred
    BY <1>5 DEF Read, HandleHandshake, WriteOK, kernel, history
  <2>4. QED
    BY <2>1, <2>2, <2>3 DEF Moves, Goes
<1>6. ASSUME NEW w \in Workers, Unbind(w)
      PROVE  hello' = hello /\ blurred \subseteq blurred' /\ Moves(w)
  <2>1. job' = [job EXCEPT ![w] = Idle] /\ hello' = hello /\ blurred' = blurred
    BY <1>6 DEF Unbind, kernel, history
  <2>2. QED
    BY <2>1 DEF TypeOK, Moves, Ends
<1>7. CASE \E f \in Fds, w \in Workers : Dispatch(f, w)
  BY <1>7
<1>8. QED
  BY <1>1, <1>2, <1>3, <1>4, <1>5, <1>6, <1>7 DEF Next

LEMMA KeyedStep ==
  ASSUME TypeOK, Bound, Keyed, Next
  PROVE  Keyed'
<1> SUFFICES ASSUME NEW w \in Workers, job'[w].at = "bind"
             PROVE  hello'[job'[w].conn] # NoKey
  BY DEF Keyed
<1>1. CASE job' = job /\ hello' = hello
  BY <1>1 DEF Keyed
<1>2. ASSUME NEW c \in Conns, NEW f \in Fds, NEW h \in Sessions \cup {None, NoKey},
             Accept(c, f, h), job' = job
      PROVE  hello'[job'[w].conn] # NoKey
  <2>1. job[w].conn \in Conns /\ obj[job[w].conn] = "live" /\ hello[job[w].conn] # NoKey
    BY <1>2, Serving DEF Keyed
  <2>2. job[w].conn # c /\ hello' = [hello EXCEPT ![c] = h]
    BY <1>2, <2>1 DEF Accept
  <2>3. QED
    BY <1>2, <2>1, <2>2 DEF TypeOK
<1>3. ASSUME NEW f \in Fds, NEW v \in Workers, Dispatch(f, v)
      PROVE  hello'[job'[w].conn] # NoKey
  <2>1. hello' = hello
    BY <1>3 DEF Dispatch, kernel
  <2>2. PICK l \in {"read", "write"} : job' = [job EXCEPT ![v] = [conn |-> m_users[f], at |-> l]]
    BY <1>3 DEF Dispatch
  <2>3. w # v /\ job'[w] = job[w]
    BY <2>2 DEF TypeOK
  <2>4. QED
    BY <2>1, <2>3 DEF Keyed
<1>4. ASSUME NEW v \in Workers, Moves(v), hello' = hello
      PROVE  hello'[job'[w].conn] # NoKey
  <2>1. CASE w = v
    BY <1>4, <2>1, JobFields DEF Moves, Ends, Goes
  <2>2. CASE w # v
    BY <1>4, <2>2 DEF Moves, Keyed
  <2>3. QED
    BY <2>1, <2>2
<1>5. QED
  BY <1>1, <1>2, <1>3, <1>4, JobMoves

LEMMA BoundStep == TypeOK /\ Bound /\ Keyed /\ [Next]_vars => TypeOK' /\ Bound' /\ Keyed'
<1> SUFFICES ASSUME TypeOK, Bound, Keyed, [Next]_vars
             PROVE  TypeOK' /\ Bound' /\ Keyed'
  OBVIOUS
<1>0. Next => Keyed'
  BY KeyedStep
<1>1. ASSUME \E c \in Conns, f \in Fds, h \in Sessions \cup {None, NoKey} : Accept(c, f, h)
      PROVE  TypeOK' /\ Bound'
  BY <1>1, AcceptStep
<1>2. ASSUME \E f \in Fds : Expire(f) \/ \E w \in Workers : Dispatch(f, w)
      PROVE  TypeOK' /\ Bound'
  BY <1>2, ExpireStep, DispatchStep
<1>3. ASSUME \E w \in Workers :
             \/ \E n \in 1..2 * (Frames + 1) : Read(w, n)
             \/ ReadFails(w)
             \/ HandleHandshake(w) \/ BindSession(w) \/ ProcessFails(w)
             \/ \E m \in Messages : HandleFrame(w, m)
             \/ WriteOK(w) \/ WriteAgain(w) \/ WriteFails(w) \/ Reinit(w)
             \/ Unbind(w)
      PROVE  TypeOK' /\ Bound'
  BY <1>3, ReadStep, GivesUp, HandshakeStep, BindStep, Waits, FrameStep, WriteStep,
           ReinitStep, UnbindStep
<1>4. ASSUME (\E s \in Sessions : PushFind(s)) \/ PushSend
      PROVE  TypeOK' /\ Bound'
  BY <1>4, PushFindStep, PushSendStep
<1>5. CASE UNCHANGED vars
  <2>1. UNCHANGED <<hello, sock, epoll, m_users, job, obj, m_sockfd, m_is_closed, data,
                    m_session_to_fd, m_fd_to_session, push, pushes, revived, crossed, blurred>>
    BY <1>5 DEF vars, kernel, object, maps, pushing, history
  <2>2. Keyed'
    BY <2>1 DEF Keyed
  <2>3. QED
    BY <2>1, <2>2 DEF TypeOK, Bound, UsersLive, LiveOpen, HasFd, SockOwned, JobsFit, PushFits,
                      Marked
<1>6. QED
  BY <1>0, <1>1, <1>2, <1>3, <1>4, <1>5 DEF Next

LEMMA BoundInit == Init => TypeOK /\ Bound /\ Keyed
<1> SUFFICES ASSUME Init
             PROVE  TypeOK /\ Bound /\ Keyed
  OBVIOUS
<1>1. NoData \in Data /\ Idle \in Jobs /\ Quiet \in Pushes
  BY NoDataFields, EmptySeq, JobFields, PushFields
<1>2. data \in [Conns -> Data]
  BY <1>1 DEF Init
<1>3. job \in [Workers -> Jobs] /\ \A w \in Workers : job[w] = Idle
  BY <1>1 DEF Init
<1>4. TypeOK
  <2>1. /\ hello \in [Conns -> Sessions \cup {None, NoKey}] /\ sock \in [Fds -> Conns \cup {None}]
        /\ epoll \in [Fds -> {"off", "idle", "IN", "OUT"}]
        /\ m_users \in [Fds -> Conns \cup {None}]
    BY DEF Init
  <2>2. /\ obj \in [Conns -> {"new", "live", "dead"}] /\ m_sockfd \in [Conns -> Fds \cup {None}]
        /\ m_is_closed \in [Conns -> BOOLEAN]
    BY DEF Init
  <2>3. /\ m_session_to_fd \in [Sessions -> Fds \cup {None}]
        /\ m_fd_to_session \in [Fds -> Sessions \cup {None}]
    BY DEF Init
  <2>4. push \in Pushes /\ pushes \in 0..MaxPushes
    BY <1>1, BoundsNat DEF Init
  <2>5. revived \in SUBSET Conns /\ crossed \in BOOLEAN /\ blurred \in SUBSET Conns
    BY DEF Init
  <2>6. QED
    BY <1>2, <1>3, <2>1, <2>2, <2>3, <2>4, <2>5 DEF TypeOK
<1>5. Bound
  BY <1>3 DEF Init, Bound, UsersLive, LiveOpen, HasFd, SockOwned, JobsFit, PushFits, Marked
<1>6. Keyed
  BY <1>3, JobFields DEF Keyed
<1>7. QED
  BY <1>4, <1>5, <1>6

LEMMA BoundInvariant == Spec => [](TypeOK /\ Bound /\ Keyed)
BY BoundInit, BoundStep, PTL DEF Spec

(* The types of WebSocketConn, WebsocketConnManager and what they run on.   *)
THEOREM TypeCorrect == Spec => []TypeOK
BY BoundInvariant, PTL

(* As long as m_users, a closure or a push refers to a connection, its      *)
(* descriptor is open and its own; once the destructor ran it is closed,    *)
(* except where init revived a connection that closeConn had marked.        *)
THEOREM FdAndConnLiveTogether == Spec => []FdLivesWithConn
<1>1. ASSUME TypeOK, Bound
      PROVE  FdLivesWithConn
  <2> SUFFICES ASSUME NEW c \in Conns
               PROVE  /\ obj[c] = "live" => sock[m_sockfd[c]] = c
                      /\ ((\E f \in Fds : m_users[f] = c) \/ Holders(c) # {}) => obj[c] = "live"
                      /\ obj[c] = "dead" /\ c \notin revived => \A f \in Fds : sock[f] # c
    BY DEF FdLivesWithConn
  <2>1. c # None
    BY Distinct
  <2>2. obj[c] = "live" => sock[m_sockfd[c]] = c
    BY <1>1 DEF Bound, LiveOpen
  <2>3. \A f \in Fds : m_users[f] = c => obj[c] = "live"
    BY <1>1, <2>1 DEF Bound, UsersLive
  <2>4. ASSUME NEW w \in Workers, Serves(w, c)
        PROVE  obj[c] = "live"
    <3>1. job[w].conn = c /\ job[w].at # "unbind" /\ job[w] # Idle
      BY <2>1, <2>4, JobFields DEF Serves
    <3>2. QED
      BY <1>1, <3>1 DEF Bound, JobsFit
  <2>5. ASSUME push.conn = c, push.at = "found"
        PROVE  obj[c] = "live"
    <3>1. push # Quiet
      BY <2>1, <2>5, PushFields
    <3>2. QED
      BY <1>1, <2>5, <3>1 DEF Bound, PushFits
  <2>6. Holders(c) # {} => obj[c] = "live"
    BY <2>4, <2>5 DEF Holders
  <2>7. obj[c] = "dead" /\ c \notin revived => \A f \in Fds : sock[f] # c
    BY <1>1, <2>1 DEF Bound, SockOwned
  <2>8. QED
    BY <2>2, <2>3, <2>6, <2>7
<1>2. QED
  BY <1>1, BoundInvariant, PTL

-----------------------------------------------------------------------------
(* Sessions                                                                *)

(* An entry of m_fd_to_session stands for the client whose descriptor it    *)
(* is, or for the one whose removeFd is to come.                            *)
Owner(f, s) ==
  \/ sock[f] # None /\ hello[sock[f]] = s
  \/ sock[f] = None /\ \E d \in Unbinding : m_sockfd[d] = f /\ hello[d] = s

MapsAgree == \A s \in Sessions : m_session_to_fd[s] # None => m_fd_to_session[m_session_to_fd[s]] = s
Owned == \A f \in Fds : m_fd_to_session[f] # None => Owner(f, m_fd_to_session[f])
UnbindingClosed == \A d \in Unbinding : sock[m_sockfd[d]] = None
SendsRight == push # Quiet => hello[push.conn] = push.to
NewUnnamed == \A c \in Conns : obj[c] = "new" => hello[c] = None

Greeted(c) == obj[c] = "live" /\ Connected(c)
AloneWith(c) == hello[c] # None /\ \A d \in Conns \ {c} : hello[d] # hello[c]
Found(c) == AloneWith(c) => m_session_to_fd[hello[c]] = m_sockfd[c]
GreetedFound == \A c \in Conns : Greeted(c) => hello[c] # NoKey /\ Found(c)

Links == /\ MapsAgree /\ Owned /\ UnbindingClosed /\ SendsRight /\ NewUnnamed /\ GreetedFound

LEMMA UnbindingDead ==
  ASSUME TypeOK, Bound, NEW d \in Unbinding
  PROVE  d \in Conns /\ obj[d] = "dead" /\ m_sockfd[d] \in Fds
<1>1. CASE \E w \in Workers : job[w].at = "unbind" /\ d = job[w].conn
  <2>1. PICK w \in Workers : job[w].at = "unbind" /\ d = job[w].conn
    BY <1>1
  <2>2. job[w] \in Jobs
    BY DEF TypeOK
  <2>3. job[w] # Idle /\ d \in Conns
    BY <2>1, <2>2, JobFields
  <2>4. obj[d] = "dead"
    BY <2>1, <2>3 DEF Bound, JobsFit
  <2>5. QED
    BY <2>3, <2>4 DEF Bound, HasFd
<1>2. CASE push.at = "stuck" /\ d = push.conn
  <2>1. push # Quiet /\ d \in Conns
    BY <1>2, PushFields DEF TypeOK
  <2>2. obj[d] = "dead"
    BY <1>2, <2>1 DEF Bound, PushFits
  <2>3. QED
    BY <2>1, <2>2 DEF Bound, HasFd
<1>3. QED
  BY <1>1, <1>2 DEF Unbinding

LEMMA UnbindingOf ==
  /\ \A d : d \in Unbinding <=> \/ \E w \in Workers : job[w].at = "unbind" /\ d = job[w].conn
                                \/ push.at = "stuck" /\ d = push.conn
  /\ \A d : d \in Unbinding' <=> \/ \E w \in Workers : job'[w].at = "unbind" /\ d = job'[w].conn
                                 \/ push'.at = "stuck" /\ d = push'.conn
BY DEF Unbinding

(* bindSession, before the closure lets go of the connection.               *)
LEMMA Binds ==
  ASSUME TypeOK, Bound, Links,
         \/ UNCHANGED maps
         \/ \E b \in Conns :
              /\ obj[b] = "live" /\ hello[b] \in Sessions
              /\ m_session_to_fd' = [m_session_to_fd EXCEPT ![hello[b]] = m_sockfd[b]]
              /\ m_fd_to_session' = [m_fd_to_session EXCEPT ![m_sockfd[b]] = hello[b]]
  PROVE  /\ \A s \in Sessions : m_session_to_fd'[s] # None =>
              m_fd_to_session'[m_session_to_fd'[s]] = s
         /\ \A f \in Fds : m_fd_to_session'[f] # None => Owner(f, m_fd_to_session'[f])
         /\ \A c \in Conns : Greeted(c) /\ AloneWith(c) => m_session_to_fd'[hello[c]] = m_sockfd[c]
<1>0. MapsAgree /\ Owned /\ GreetedFound
  BY DEF Links
<1>1. CASE UNCHANGED maps
  BY <1>0, <1>1 DEF maps, MapsAgree, Owned, GreetedFound, Found
<1>2. ASSUME NEW b \in Conns, obj[b] = "live", hello[b] \in Sessions,
             m_session_to_fd' = [m_session_to_fd EXCEPT ![hello[b]] = m_sockfd[b]],
             m_fd_to_session' = [m_fd_to_session EXCEPT ![m_sockfd[b]] = hello[b]]
      PROVE  /\ \A s \in Sessions : m_session_to_fd'[s] # None =>
                  m_fd_to_session'[m_session_to_fd'[s]] = s
             /\ \A f \in Fds : m_fd_to_session'[f] # None => Owner(f, m_fd_to_session'[f])
             /\ \A c \in Conns : Greeted(c) /\ AloneWith(c) =>
                  m_session_to_fd'[hello[c]] = m_sockfd[c]
  <2>1. m_sockfd[b] \in Fds /\ sock[m_sockfd[b]] = b /\ b # None
    BY <1>2, OwnFd
  <2>2. m_session_to_fd'[hello[b]] = m_sockfd[b]
        /\ \A s \in Sessions : s # hello[b] => m_session_to_fd'[s] = m_session_to_fd[s]
    BY <1>2 DEF TypeOK
  <2>3. m_fd_to_session'[m_sockfd[b]] = hello[b]
        /\ \A f \in Fds : f # m_sockfd[b] => m_fd_to_session'[f] = m_fd_to_session[f]
    BY <1>2, <2>1 DEF TypeOK
  <2>4. ASSUME NEW s \in Sessions, m_session_to_fd'[s] # None
        PROVE  m_fd_to_session'[m_session_to_fd'[s]] = s
    <3>1. CASE s = hello[b]
      BY <2>2, <2>3, <3>1
    <3>2. CASE s # hello[b]
      <4>1. PICK g : g = m_session_to_fd[s]
        OBVIOUS
      <4>2. m_session_to_fd'[s] = g /\ g \in Fds /\ m_fd_to_session[g] = s
        BY <1>0, <2>2, <2>4, <3>2, <4>1 DEF MapsAgree, TypeOK
      <4>3. s # None
        BY Distinct
      <4>4. Owner(g, s)
        BY <1>0, <4>2, <4>3 DEF Owned
      <4>5. g # m_sockfd[b]
        BY <2>1, <3>2, <4>4 DEF Owner
      <4>6. QED
        BY <2>3, <4>2, <4>5
    <3>3. QED
      BY <3>1, <3>2
  <2>5. ASSUME NEW f \in Fds, m_fd_to_session'[f] # None
        PROVE  Owner(f, m_fd_to_session'[f])
    <3>1. CASE f = m_sockfd[b]
      BY <2>1, <2>3, <3>1 DEF Owner
    <3>2. CASE f # m_sockfd[b]
      BY <1>0, <2>3, <2>5, <3>2 DEF Owned
    <3>3. QED
      BY <3>1, <3>2
  <2>6. ASSUME NEW c \in Conns, Greeted(c), AloneWith(c)
        PROVE  m_session_to_fd'[hello[c]] = m_sockfd[c]
    <3>1. CASE c = b
      BY <2>2, <3>1
    <3>2. CASE c # b
      <4>1. hello[b] # hello[c] /\ hello[c] \in Sessions
        BY <1>0, <2>6, <3>2 DEF AloneWith, GreetedFound, TypeOK
      <4>2. m_session_to_fd[hello[c]] = m_sockfd[c]
        BY <1>0, <2>6 DEF GreetedFound, Found
      <4>3. QED
        BY <2>2, <4>1, <4>2
    <3>3. QED
      BY <3>1, <3>2
  <2>7. QED
    BY <2>4, <2>5, <2>6
<1>3. QED
  BY <1>1, <1>2

(* A step that takes nothing out of the maps.                               *)
LEMMA LinksKept ==
  ASSUME TypeOK, Bound, Links, TypeOK', Bound', hello' = hello, m_sockfd' = m_sockfd,
         \/ UNCHANGED maps
         \/ \E b \in Conns :
              /\ obj[b] = "live" /\ hello[b] \in Sessions
              /\ m_session_to_fd' = [m_session_to_fd EXCEPT ![hello[b]] = m_sockfd[b]]
              /\ m_fd_to_session' = [m_fd_to_session EXCEPT ![m_sockfd[b]] = hello[b]],
         \A f \in Fds : sock'[f] = sock[f] \/ (sock'[f] = None /\ sock[f] \in Unbinding'),
         \A d \in Unbinding : d \in Unbinding',
         \A d \in Unbinding' : d \in Unbinding \/ sock'[m_sockfd[d]] = None,
         push' = Quiet \/ hello[push'.conn] = push'.to,
         \A c \in Conns : obj'[c] = "new" => obj[c] = "new",
         \A c \in Conns : Greeted(c)' =>
           \/ Greeted(c)
           \/ hello[c] # NoKey /\ (hello[c] # None => m_session_to_fd'[hello[c]] = m_sockfd[c])
  PROVE  Links'
<1>0. UnbindingClosed /\ NewUnnamed /\ GreetedFound
  BY DEF Links
<1>1. /\ \A s \in Sessions : m_session_to_fd'[s] # None =>
           m_fd_to_session'[m_session_to_fd'[s]] = s
      /\ \A f \in Fds : m_fd_to_session'[f] # None => Owner(f, m_fd_to_session'[f])
      /\ \A c \in Conns : Greeted(c) /\ AloneWith(c) => m_session_to_fd'[hello[c]] = m_sockfd[c]
  BY Binds
<1>2. MapsAgree'
  BY <1>1 DEF MapsAgree
<1>3. Owned'
  <2> SUFFICES ASSUME NEW f \in Fds, NEW s, s = m_fd_to_session'[f], s # None
               PROVE  \/ sock'[f] # None /\ hello[sock'[f]] = s
                      \/ sock'[f] = None /\ \E d \in Unbinding' : m_sockfd[d] = f /\ hello[d] = s
    BY DEF Owned, Owner
  <2>1. Owner(f, s)
    BY <1>1
  <2>2. CASE sock'[f] = sock[f]
    BY <2>1, <2>2 DEF Owner
  <2>3. CASE sock[f] # None /\ sock'[f] = None /\ sock[f] \in Unbinding'
    <3>1. m_sockfd[sock[f]] = f
      BY <2>3 DEF Bound, SockOwned
    <3>2. hello[sock[f]] = s
      BY <2>1, <2>3 DEF Owner
    <3>3. QED
      BY <2>3, <3>1, <3>2
  <2>4. QED
    BY <2>2, <2>3
<1>4. UnbindingClosed'
  <2> SUFFICES ASSUME NEW d \in Unbinding'
               PROVE  sock'[m_sockfd[d]] = None
    BY DEF UnbindingClosed
  <2>1. CASE d \in Unbinding
    <3>1. m_sockfd[d] \in Fds /\ sock[m_sockfd[d]] = None
      BY <1>0, <2>1, UnbindingDead DEF UnbindingClosed
    <3>2. QED
      BY <3>1
  <2>2. QED
    BY <2>1
<1>5. SendsRight'
  BY DEF SendsRight, Quiet
<1>6. NewUnnamed'
  BY <1>0 DEF NewUnnamed
<1>7. GreetedFound'
  <2> SUFFICES ASSUME NEW c \in Conns, Greeted(c)'
               PROVE  hello[c] # NoKey /\ (AloneWith(c) => m_session_to_fd'[hello[c]] = m_sockfd[c])
    BY DEF GreetedFound, Found, AloneWith
  <2>1. CASE Greeted(c)
    BY <1>0, <1>1, <2>1 DEF GreetedFound
  <2>2. QED
    BY <2>1 DEF AloneWith
<1>8. QED
  BY <1>2, <1>3, <1>4, <1>5, <1>6, <1>7 DEF Links

(* removeFd, of a descriptor that is closed now.                            *)
LEMMA LinksFreed ==
  ASSUME TypeOK, Bound, Links, TypeOK', Bound', hello' = hello, m_sockfd' = m_sockfd, push' = push,
         NEW f \in Fds, RemoveFd(f), sock'[f] = None,
         \A g \in Fds : g # f => sock'[g] = sock[g],
         \A d \in Unbinding : m_sockfd[d] # f => d \in Unbinding',
         \A d \in Unbinding' : d \in Unbinding,
         \A c \in Conns : obj'[c] = "new" => obj[c] = "new",
         \A c \in Conns : Greeted(c)' => Greeted(c) /\ c # sock[f]
  PROVE  Links'
<1>0. MapsAgree /\ Owned /\ UnbindingClosed /\ SendsRight /\ NewUnnamed /\ GreetedFound
  BY DEF Links
<1>1. /\ m_fd_to_session'[f] = None
      /\ \A g \in Fds : g # f => m_fd_to_session'[g] = m_fd_to_session[g]
      /\ \A s \in Sessions : m_session_to_fd'[s] = IF s = m_fd_to_session[f] THEN None
                                                   ELSE m_session_to_fd[s]
  BY RemovedFd
<1>2. MapsAgree'
  <2> SUFFICES ASSUME NEW s \in Sessions, m_session_to_fd'[s] # None
               PROVE  m_fd_to_session'[m_session_to_fd'[s]] = s
    BY DEF MapsAgree
  <2>1. PICK g : g = m_session_to_fd[s]
    OBVIOUS
  <2>2. s # m_fd_to_session[f] /\ m_session_to_fd'[s] = g /\ g \in Fds
    BY <1>1, <2>1 DEF TypeOK
  <2>3. m_fd_to_session[g] = s
    BY <1>0, <2>1, <2>2 DEF MapsAgree
  <2>4. QED
    BY <1>1, <2>2, <2>3
<1>3. Owned'
  <2> SUFFICES ASSUME NEW g \in Fds, NEW s, s = m_fd_to_session'[g], s # None
               PROVE  \/ sock'[g] # None /\ hello[sock'[g]] = s
                      \/ sock'[g] = None /\ \E d \in Unbinding' : m_sockfd[d] = g /\ hello[d] = s
    BY DEF Owned, Owner
  <2>1. g # f /\ m_fd_to_session[g] = s /\ sock'[g] = sock[g]
    BY <1>1
  <2>2. Owner(g, s)
    BY <1>0, <2>1 DEF Owned
  <2>3. QED
    BY <2>1, <2>2 DEF Owner
<1>4. UnbindingClosed'
  <2> SUFFICES ASSUME NEW d \in Unbinding'
               PROVE  sock'[m_sockfd[d]] = None
    BY DEF UnbindingClosed
  <2>1. d \in Unbinding
    OBVIOUS
  <2>2. m_sockfd[d] \in Fds /\ sock[m_sockfd[d]] = None
    BY <1>0, <2>1, UnbindingDead DEF UnbindingClosed
  <2>3. QED
    BY <2>2
<1>5. SendsRight' /\ NewUnnamed'
  BY <1>0 DEF SendsRight, NewUnnamed
<1>6. GreetedFound'
  <2> SUFFICES ASSUME NEW c \in Conns, Greeted(c)'
               PROVE  hello[c] # NoKey /\ (AloneWith(c) => m_session_to_fd'[hello[c]] = m_sockfd[c])
    BY DEF GreetedFound, Found, AloneWith
  <2>1. Greeted(c) /\ c # sock[f] /\ hello[c] # NoKey /\ Found(c)
    BY <1>0 DEF GreetedFound
  <2>2. ASSUME AloneWith(c)
        PROVE  m_session_to_fd'[hello[c]] = m_sockfd[c]
    <3>1. hello[c] \in Sessions /\ m_session_to_fd[hello[c]] = m_sockfd[c]
      BY <2>1, <2>2 DEF AloneWith, Found, TypeOK
    <3>2. hello[c] # m_fd_to_session[f]
      <4> SUFFICES ASSUME hello[c] = m_fd_to_session[f]
                   PROVE  FALSE
        OBVIOUS
      <4>1. Owner(f, hello[c])
        BY <1>0, <2>2 DEF Owned, AloneWith
      <4>2. CASE sock[f] # None /\ hello[sock[f]] = hello[c]
        <5>1. sock[f] \in Conns
          BY <4>2 DEF TypeOK
        <5>2. QED
          BY <2>1, <2>2, <4>2, <5>1 DEF AloneWith
      <4>3. CASE \E d \in Unbinding : hello[d] = hello[c]
        <5>1. PICK d \in Unbinding : hello[d] = hello[c]
          BY <4>3
        <5>2. d \in Conns /\ obj[d] = "dead"
          BY <5>1, UnbindingDead
        <5>3. QED
          BY <2>1, <2>2, <5>1, <5>2 DEF AloneWith, Greeted
      <4>4. QED
        BY <4>1, <4>2, <4>3 DEF Owner
    <3>3. QED
      BY <1>1, <3>1, <3>2
  <2>3. QED
    BY <2>1, <2>2
<1>7. QED
  BY <1>2, <1>3, <1>4, <1>5, <1>6 DEF Links

LEMMA LinksReleased ==
  ASSUME TypeOK, Bound, Links, TypeOK', Bound', hello' = hello, m_sockfd' = m_sockfd, push' = push,
         \/ UNCHANGED maps
         \/ \E b \in Conns :
              /\ obj[b] = "live" /\ hello[b] \in Sessions
              /\ m_session_to_fd' = [m_session_to_fd EXCEPT ![hello[b]] = m_sockfd[b]]
              /\ m_fd_to_session' = [m_fd_to_session EXCEPT ![m_sockfd[b]] = hello[b]],
         NEW w \in Workers, job[w].at \in {"read", "process", "bind", "write", "init"},
         NEW c, c = job[w].conn, NEW d, LetGo(w, c, d),
         d.m_status = "CONNECTED" =>
           \/ data[c].m_status = "CONNECTED" /\ job[w].at # "bind"
           \/ hello[c] # NoKey /\ (hello[c] # None => m_session_to_fd'[hello[c]] = m_sockfd[c])
  PROVE  Links'
<1>1. c \in Conns /\ obj[c] = "live"
  BY Serving
<1>2. m_sockfd[c] \in Fds /\ sock[m_sockfd[c]] = c
  BY <1>1, OwnFd
<1>3. /\ \/ /\ obj'[c] = "dead" /\ sock'[m_sockfd[c]] = None
            /\ job'[w].conn = c /\ job'[w].at = "unbind"
         \/ /\ obj'[c] = "dead" /\ sock'[m_sockfd[c]] = c /\ job'[w] = Idle
         \/ /\ obj'[c] = "live" /\ data'[c] = d /\ sock'[m_sockfd[c]] = c /\ job'[w] = Idle
      /\ \A e \in Conns : e # c => data'[e] = data[e] /\ obj'[e] = obj[e]
      /\ \A v \in Workers : v # w => job'[v] = job[v]
      /\ \A f \in Fds : f # m_sockfd[c] => sock'[f] = sock[f]
  BY DEF LetGo
<1>4. Idle.at = "idle"
  BY JobFields
<1>5. \A f \in Fds : sock'[f] = sock[f] \/ (sock'[f] = None /\ sock[f] \in Unbinding')
  <2>1. CASE sock'[m_sockfd[c]] = None
    <3>1. c # None
      BY <1>1, Distinct
    <3>2. job'[w].conn = c /\ job'[w].at = "unbind"
      BY <1>3, <2>1, <3>1
    <3>3. c \in Unbinding'
      BY <3>2, UnbindingOf
    <3>4. QED
      BY <1>2, <1>3, <2>1, <3>3
  <2>2. CASE sock'[m_sockfd[c]] = c
    BY <1>2, <1>3, <2>2
  <2>3. QED
    BY <1>3, <2>1, <2>2
<1>6. \A e \in Unbinding : e \in Unbinding'
  BY <1>3, UnbindingOf
<1>7. \A e \in Unbinding' : e \in Unbinding \/ sock'[m_sockfd[e]] = None
  BY <1>3, <1>4, UnbindingOf
<1>8. push' = Quiet \/ hello[push'.conn] = push'.to
  BY DEF Links, SendsRight
<1>9. \A e \in Conns : obj'[e] = "new" => obj[e] = "new"
  BY <1>3
<1>10. \A e \in Conns : Greeted(e)' =>
         \/ Greeted(e)
         \/ hello[e] # NoKey /\ (hello[e] # None => m_session_to_fd'[hello[e]] = m_sockfd[e])
  <2>1. ASSUME NEW e \in Conns, e # c, Greeted(e)'
        PROVE  Greeted(e)
    <3>1. \A v \in Workers : Serves(v, e) => v # w /\ job'[v] = job[v]
      BY <1>3, <2>1 DEF Serves
    <3>2. QED
      BY <1>3, <2>1, <3>1 DEF Greeted, Connected, Serves
  <2>2. ASSUME Greeted(c)'
        PROVE  \/ Greeted(c)
               \/ hello[c] # NoKey /\ (hello[c] # None => m_session_to_fd'[hello[c]] = m_sockfd[c])
    <3>1. data'[c] = d /\ d.m_status = "CONNECTED"
      BY <1>3, <2>2 DEF Greeted, Connected
    <3>2. CASE data[c].m_status = "CONNECTED" /\ job[w].at # "bind"
      <4>1. \A v \in Workers : v # w => job'[v] = job[v]
        BY <1>3
      <4>2. QED
        BY <1>1, <2>2, <3>2, <4>1 DEF Greeted, Connected, Serves
    <3>3. QED
      BY <3>1, <3>2
  <2>3. QED
    BY <2>1, <2>2
<1>11. QED
  BY <1>5, <1>6, <1>7, <1>8, <1>9, <1>10, LinksKept

LEMMA LinksWorker ==
  ASSUME TypeOK, Bound, Keyed, Links, TypeOK', Bound', NEW w \in Workers,
         \/ \E n : Read(w, n)
         \/ ReadFails(w) \/ HandleHandshake(w) \/ BindSession(w) \/ ProcessFails(w)
         \/ \E m \in Messages : HandleFrame(w, m)
         \/ WriteOK(w) \/ WriteAgain(w) \/ WriteFails(w) \/ Reinit(w) \/ Unbind(w)
  PROVE  Links'
<1>1. PICK c : c = job[w].conn
  OBVIOUS
<1>2. CASE ReadFails(w) \/ WriteFails(w) \/ ProcessFails(w) \/ WriteAgain(w)
  <2>1. /\ job[w].at \in {"read", "process", "bind", "write", "init"} /\ job[w].at # "bind"
        /\ UNCHANGED <<hello, m_sockfd, maps, pushing, history>>
    BY <1>2 DEF ReadFails, WriteFails, ProcessFails, WriteAgain
  <2>2. LetGo(w, c, data[c])
    BY <1>1, <1>2, GivesUp, Waits
  <2>3. push' = push
    BY <2>1 DEF pushing
  <2>4. QED
    BY <1>1, <2>1, <2>2, <2>3, LinksReleased
<1>3. CASE BindSession(w)
  <2>1. /\ job[w].at \in {"read", "process", "bind", "write", "init"} /\ hello[c] # NoKey
        /\ UNCHANGED <<hello, m_sockfd, pushing>> /\ push' = push
    BY <1>1, <1>3 DEF BindSession, Keyed, pushing
  <2>2. c \in Conns /\ obj[c] = "live"
    BY <1>1, <2>1, Serving
  <2>3. PICK d \in Data : LetGo(w, c, d)
    BY <1>1, <1>3, BindStep
  <2>4. CASE /\ hello[c] # None
             /\ m_session_to_fd' = [m_session_to_fd EXCEPT ![hello[c]] = m_sockfd[c]]
             /\ m_fd_to_session' = [m_fd_to_session EXCEPT ![m_sockfd[c]] = hello[c]]
    <3>1. hello[c] \in Sessions
      BY <2>1, <2>2, <2>4 DEF TypeOK
    <3>2. m_session_to_fd'[hello[c]] = m_sockfd[c]
      BY <2>4, <3>1 DEF TypeOK
    <3>3. QED
      BY <1>1, <2>1, <2>2, <2>3, <2>4, <3>1, <3>2, LinksReleased
  <2>5. CASE hello[c] = None /\ UNCHANGED maps
    BY <1>1, <2>1, <2>3, <2>5, LinksReleased
  <2>6. QED
    BY <1>1, <1>3, <2>4, <2>5 DEF BindSession
<1>4. CASE \E m \in Messages : HandleFrame(w, m)
  <2>1. PICK m \in Messages : HandleFrame(w, m)
    BY <1>4
  <2>2. /\ job[w].at \in {"read", "process", "bind", "write", "init"} /\ job[w].at # "bind"
        /\ push' = push /\ UNCHANGED <<hello, m_sockfd, maps>>
    BY <2>1 DEF HandleFrame, pushing
  <2>3. PICK d \in Data : LetGo(w, c, d) /\ d.m_status = data[c].m_status
    BY <1>1, <2>1, FrameStep
  <2>4. QED
    BY <1>1, <2>2, <2>3, LinksReleased
<1>5. CASE Reinit(w)
  <2>1. /\ job[w].at \in {"read", "process", "bind", "write", "init"} /\ job[w].at # "bind"
        /\ push' = push /\ UNCHANGED <<hello, m_sockfd, maps>>
    BY <1>5 DEF Reinit, pushing
  <2>2. PICK d \in Data : LetGo(w, c, d) /\ (d = data[c] \/ d.m_status = "HANDSHAKE")
    BY <1>1, <1>5, ReinitStep
  <2>3. QED
    BY <1>1, <2>1, <2>2, LinksReleased
<1>6. CASE (\E n : Read(w, n)) \/ HandleHandshake(w) \/ WriteOK(w)
  <2>1. PICK l \in {"process", "bind", "init"} : job' = [job EXCEPT ![w] = [conn |-> c, at |-> l]]
    BY <1>1, <1>6 DEF Read, HandleHandshake, WriteOK
  <2>2. /\ job[w].at \in {"read", "process", "bind", "write", "init"} /\ job[w].at # "bind"
        /\ UNCHANGED <<hello, sock, obj, m_sockfd, maps, push>>
    BY <1>6 DEF Read, HandleHandshake, WriteOK, kernel, object, pushing
  <2>3. /\ job'[w].conn = c /\ job'[w].at = l /\ l # "unbind"
        /\ \A v \in Workers : v # w => job'[v] = job[v]
    BY <2>1 DEF TypeOK
  <2>4. /\ \A e \in Conns : e # c => data'[e].m_status = data[e].m_status
        /\ data'[c].m_status = data[c].m_status \/ l = "bind"
    <3>1. CASE (\E n : Read(w, n)) \/ WriteOK(w)
      BY <1>1, <3>1, ReadStep, WriteStep
    <3>2. CASE HandleHandshake(w)
      <4>1. job' = [job EXCEPT ![w] = [conn |-> c, at |-> "bind"]]
        BY <1>1, <3>2 DEF HandleHandshake
      <4>2. l = "bind"
        BY <2>3, <4>1 DEF TypeOK
      <4>3. QED
        BY <1>1, <3>2, <4>2, HandshakeStep
    <3>3. QED
      BY <1>6, <3>1, <3>2
  <2>5. \A e : e \in Unbinding' <=> e \in Unbinding
    BY <2>2, <2>3, UnbindingOf
  <2>6. push' = Quiet \/ hello[push'.conn] = push'.to
    BY <2>2 DEF Links, SendsRight
  <2>7. ASSUME NEW e \in Conns, Greeted(e)'
        PROVE  Greeted(e)
    <3>1. e = c => l # "bind"
      BY <2>3, <2>7 DEF Greeted, Connected, Serves
    <3>2. data[e].m_status = "CONNECTED"
      BY <2>4, <2>7, <3>1 DEF Greeted, Connected
    <3>3. \A v \in Workers : Serves(v, e) => job[v].at # "bind"
      BY <2>2, <2>3, <2>7 DEF Greeted, Connected, Serves
    <3>4. QED
      BY <2>2, <2>7, <3>2, <3>3 DEF Greeted, Connected
  <2>8. QED
    BY <2>2, <2>5, <2>6, <2>7, LinksKept
<1>7. CASE Unbind(w)
  <2>1. /\ c \in Conns /\ obj[c] = "dead" /\ m_sockfd[c] \in Fds /\ RemoveFd(m_sockfd[c])
        /\ job'[w] = Idle /\ \A v \in Workers : v # w => job'[v] = job[v]
    BY <1>1, <1>7, UnbindStep
  <2>2. /\ job[w].at = "unbind" /\ UNCHANGED <<hello, sock, obj, m_sockfd, data, push>>
    BY <1>7 DEF Unbind, kernel, object, pushing
  <2>3. c \in Unbinding
    BY <1>1, <2>2, UnbindingOf
  <2>4. sock'[m_sockfd[c]] = None
    BY <2>2, <2>3 DEF Links, UnbindingClosed
  <2>5. Idle.at = "idle"
    BY JobFields
  <2>6. /\ \A e \in Unbinding' : e \in Unbinding
        /\ \A e \in Unbinding : m_sockfd[e] # m_sockfd[c] => e \in Unbinding'
    BY <1>1, <2>1, <2>2, <2>5, UnbindingOf
  <2>7. \A e \in Conns : Greeted(e)' => Greeted(e) /\ e # sock[m_sockfd[c]]
    <3>1. \A v \in Workers : job[v].at = "bind" => job'[v] = job[v]
      BY <2>1, <2>2
    <3>2. QED
      BY <2>2, <2>4, <3>1, Distinct DEF Greeted, Connected, Serves
  <2>8. QED
    BY <2>1, <2>2, <2>4, <2>6, <2>7, LinksFreed
<1>8. QED
  BY <1>2, <1>3, <1>4, <1>5, <1>6, <1>7

LEMMA LinksAccept ==
  ASSUME TypeOK, Bound, Links, TypeOK', Bound', NEW c \in Conns, NEW f \in Fds,
         NEW h \in Sessions \cup {None, NoKey}, Accept(c, f, h), ~crossed'
  PROVE  Links'
<1>0. MapsAgree /\ Owned /\ UnbindingClosed /\ SendsRight /\ NewUnnamed /\ GreetedFound
  BY DEF Links
<1>1. /\ f # None /\ c # None
      /\ hello'[c] = h /\ obj'[c] = "live" /\ m_sockfd'[c] = f
      /\ data'[c] = [NoData EXCEPT !.wire = UnitsFrom(1)]
      /\ \A d \in Conns : d # c => /\ hello'[d] = hello[d] /\ obj'[d] = obj[d]
                                   /\ m_sockfd'[d] = m_sockfd[d] /\ data'[d] = data[d]
      /\ sock'[f] = c /\ \A g \in Fds : g # f => sock'[g] = sock[g]
  BY AcceptStep
<1>2. /\ obj[c] = "new" /\ sock[f] = None
      /\ UNCHANGED <<m_session_to_fd, m_fd_to_session, job, push>>
      /\ crossed' = (crossed \/ \E d \in Unbinding : m_sockfd[d] = f)
  BY DEF Accept, maps, pushing
<1>3. \A d \in Unbinding : d \in Conns /\ d # c /\ m_sockfd[d] # f /\ m_sockfd[d] \in Fds
  BY <1>2, UnbindingDead
<1>4. \A d : d \in Unbinding' <=> d \in Unbinding
  BY <1>2, UnbindingOf
<1>5. data'[c].m_status = "HANDSHAKE"
  BY <1>1, UnitsSent, NoDataFields
<1>6. MapsAgree'
  BY <1>0, <1>2 DEF MapsAgree
<1>7. Owned'
  <2> SUFFICES ASSUME NEW g \in Fds, NEW s, s = m_fd_to_session[g], s # None
               PROVE  \/ sock'[g] # None /\ hello'[sock'[g]] = s
                      \/ sock'[g] = None /\ \E d \in Unbinding' : m_sockfd'[d] = g /\ hello'[d] = s
    BY <1>2 DEF Owned, Owner
  <2>1. Owner(g, s)
    BY <1>0 DEF Owned
  <2>2. g # f
    BY <1>2, <1>3, <2>1 DEF Owner
  <2>3. CASE sock[g] # None /\ hello[sock[g]] = s
    <3>1. sock[g] \in Conns /\ sock[g] # c
      BY <1>2, <2>3 DEF TypeOK, Bound, SockOwned
    <3>2. QED
      BY <1>1, <2>2, <2>3, <3>1
  <2>4. CASE sock[g] = None /\ \E d \in Unbinding : m_sockfd[d] = g /\ hello[d] = s
    <3>1. PICK d \in Unbinding : m_sockfd[d] = g /\ hello[d] = s
      BY <2>4
    <3>2. m_sockfd'[d] = g /\ hello'[d] = s /\ d \in Unbinding'
      BY <1>1, <1>3, <1>4, <3>1
    <3>3. QED
      BY <1>1, <2>2, <2>4, <3>2
  <2>5. QED
    BY <2>1, <2>3, <2>4 DEF Owner
<1>8. UnbindingClosed'
  <2> SUFFICES ASSUME NEW d \in Unbinding'
               PROVE  sock'[m_sockfd'[d]] = None
    BY DEF UnbindingClosed
  <2>1. d \in Unbinding
    BY <1>4
  <2>2. m_sockfd'[d] = m_sockfd[d] /\ sock'[m_sockfd[d]] = sock[m_sockfd[d]]
    BY <1>1, <1>3, <2>1
  <2>3. QED
    BY <1>0, <2>1, <2>2 DEF UnbindingClosed
<1>9. SendsRight'
  <2> SUFFICES ASSUME push # Quiet
               PROVE  hello'[push.conn] = push.to
    BY <1>2 DEF SendsRight
  <2>1. push.conn \in Conns
    BY PushFields DEF TypeOK
  <2>2. push.conn # c
    BY <1>2, <2>1 DEF Bound, PushFits
  <2>3. QED
    BY <1>0, <1>1, <2>1, <2>2 DEF SendsRight
<1>10. NewUnnamed'
  BY <1>0, <1>1 DEF NewUnnamed
<1>11. GreetedFound'
  <2> SUFFICES ASSUME NEW x \in Conns, Greeted(x)'
               PROVE  hello'[x] # NoKey /\ (AloneWith(x)' => m_session_to_fd[hello'[x]] = m_sockfd'[x])
    BY <1>2 DEF GreetedFound, Found, AloneWith
  <2>1. x # c
    BY <1>5 DEF Greeted, Connected
  <2>2. hello'[x] = hello[x] /\ m_sockfd'[x] = m_sockfd[x] /\ Greeted(x)
    BY <1>1, <1>2, <2>1 DEF Greeted, Connected, Serves
  <2>3. ASSUME AloneWith(x)'
        PROVE  AloneWith(x)
    <3>1. hello[x] # None /\ \A d \in Conns \ {x} : hello'[d] # hello[x]
      BY <2>2, <2>3 DEF AloneWith
    <3>2. hello[c] = None
      BY <1>0, <1>2 DEF NewUnnamed
    <3>3. \A d \in Conns \ {x} : hello[d] # hello[x]
      BY <1>1, <3>1, <3>2
    <3>4. QED
      BY <3>1, <3>3 DEF AloneWith
  <2>4. QED
    BY <1>0, <2>2, <2>3 DEF GreetedFound, Found
<1>12. QED
  BY <1>6, <1>7, <1>8, <1>9, <1>10, <1>11 DEF Links

LEMMA LinksOther ==
  ASSUME TypeOK, Bound, Links, TypeOK', Bound',
         \/ \E f \in Fds : Expire(f) \/ \E w \in Workers : Dispatch(f, w)
         \/ (\E s \in Sessions : PushFind(s)) \/ PushSend
  PROVE  Links'
<1>0. push = Quiet \/ hello[push.conn] = push.to
  BY DEF Links, SendsRight
<1>1. ASSUME NEW f \in Fds, Expire(f)
      PROVE  Links'
  <2>1. PICK c : c = m_users[f]
    OBVIOUS
  <2>2. /\ c \in Conns /\ obj[c] = "live" /\ m_sockfd[c] = f /\ sock[f] = c
        /\ \/ /\ obj'[c] = "dead" /\ sock'[f] = None /\ RemoveFd(f)
              /\ \A e \in Conns : e # c => data'[e] = data[e] /\ obj'[e] = obj[e]
              /\ \A g \in Fds : g # f => sock'[g] = sock[g]
           \/ UNCHANGED <<obj, sock, data, maps>>
    BY <1>1, <2>1, ExpireStep
  <2>3. UNCHANGED <<hello, job, m_sockfd, push>>
    BY <1>1 DEF Expire, pushing
  <2>4. \A e : e \in Unbinding' <=> e \in Unbinding
    BY <2>3, UnbindingOf
  <2>5. CASE /\ obj'[c] = "dead" /\ sock'[f] = None /\ RemoveFd(f)
             /\ \A e \in Conns : e # c => data'[e] = data[e] /\ obj'[e] = obj[e]
             /\ \A g \in Fds : g # f => sock'[g] = sock[g]
    <3>1. \A e \in Conns : Greeted(e)' => Greeted(e) /\ e # sock[f]
      BY <2>2, <2>3, <2>5 DEF Greeted, Connected, Serves
    <3>2. \A e \in Conns : obj'[e] = "new" => obj[e] = "new"
      BY <2>2, <2>5
    <3>3. QED
      BY <2>3, <2>4, <2>5, <3>1, <3>2, LinksFreed
  <2>6. CASE UNCHANGED <<obj, sock, data, maps>>
    <3>1. \A e \in Conns : Greeted(e)' => Greeted(e)
      BY <2>3, <2>6 DEF Greeted, Connected, Serves
    <3>2. QED
      BY <1>0, <2>3, <2>4, <2>6, <3>1, LinksKept
  <2>7. QED
    BY <2>2, <2>5, <2>6
<1>2. ASSUME NEW f \in Fds, NEW w \in Workers, Dispatch(f, w)
      PROVE  Links'
  <2>1. UNCHANGED <<hello, sock, obj, m_sockfd, data, maps, push>>
    BY <1>2 DEF Dispatch, kernel, object, pushing
  <2>2. PICK l \in {"read", "write"} : job' = [job EXCEPT ![w] = [conn |-> m_users[f], at |-> l]]
    BY <1>2 DEF Dispatch
  <2>3. job'[w].at # "unbind" /\ \A v \in Workers : v # w => job'[v] = job[v]
    BY <2>2 DEF TypeOK
  <2>4. job[w].at # "unbind"
    BY <1>2, JobFields DEF Dispatch
  <2>5. \A e : e \in Unbinding' <=> e \in Unbinding
    BY <2>1, <2>3, <2>4, UnbindingOf
  <2>6. \A e \in Conns : Greeted(e)' => Greeted(e)
    <3>1. job[w].at # "bind"
      BY <1>2, JobFields DEF Dispatch
    <3>2. QED
      BY <2>1, <2>3, <3>1 DEF Greeted, Connected, Serves
  <2>7. QED
    BY <1>0, <2>1, <2>5, <2>6, LinksKept
<1>3. ASSUME NEW s \in Sessions, PushFind(s)
      PROVE  Links'
  <2>1. UNCHANGED <<hello, sock, obj, m_sockfd, data, maps, job>> /\ push.at = "idle"
    BY <1>3 DEF PushFind, kernel, object
  <2>2. PICK f \in Fds : /\ f = m_session_to_fd[s] /\ m_users[f] \in Conns
                         /\ push'.conn = m_users[f] /\ push'.to = s /\ push'.at = "found"
    BY <1>3, PushFindStep
  <2>3. hello[m_users[f]] = s
    <3>1. f # None /\ s # None
      BY Distinct
    <3>2. m_fd_to_session[f] = s
      BY <2>2, <3>1 DEF Links, MapsAgree
    <3>3. Owner(f, s)
      BY <3>1, <3>2 DEF Links, Owned
    <3>4. m_users[f] # None
      BY <2>2, Distinct
    <3>5. sock[f] = m_users[f]
      BY <2>2, <3>4 DEF Bound, UsersLive, LiveOpen
    <3>6. QED
      BY <3>3, <3>4, <3>5 DEF Owner
  <2>4. \A e : e \in Unbinding' <=> e \in Unbinding
    BY <2>1, <2>2, UnbindingOf
  <2>5. \A e \in Conns : Greeted(e)' => Greeted(e)
    BY <2>1 DEF Greeted, Connected, Serves
  <2>6. hello[push'.conn] = push'.to
    BY <2>2, <2>3
  <2>7. QED
    BY <2>1, <2>4, <2>5, <2>6, LinksKept
<1>4. CASE PushSend
  <2>1. PICK c : c = push.conn
    OBVIOUS
  <2>2. /\ c \in Conns /\ obj[c] = "live" /\ push.to \in Sessions
        /\ \A e \in Conns : e # c => data'[e] = data[e] /\ obj'[e] = obj[e]
        /\ \A f \in Fds : f # m_sockfd[c] => sock'[f] = sock[f]
        /\ \/ /\ obj'[c] = "dead"
              /\ sock'[m_sockfd[c]] = (IF m_is_closed[c] THEN None ELSE c)
              /\ push' = IF m_is_closed[c] THEN [conn |-> c, to |-> push.to, at |-> "stuck"]
                         ELSE Quiet
           \/ /\ obj'[c] = "live" /\ push' = Quiet /\ sock'[m_sockfd[c]] = sock[m_sockfd[c]]
              /\ data'[c].m_status = data[c].m_status
    BY <1>4, <2>1, PushSendStep
  <2>3. m_sockfd[c] \in Fds /\ sock[m_sockfd[c]] = c
    BY <2>2, OwnFd
  <2>4. UNCHANGED <<hello, m_sockfd, maps, job>> /\ push.at = "found"
    BY <1>4 DEF PushSend
  <2>5. /\ \/ /\ obj'[c] = "dead" /\ sock'[m_sockfd[c]] = None
              /\ push'.conn = c /\ push'.to = push.to /\ push'.at = "stuck"
           \/ /\ obj'[c] = "dead" /\ sock'[m_sockfd[c]] = c /\ push' = Quiet
           \/ /\ obj'[c] = "live" /\ sock'[m_sockfd[c]] = c /\ push' = Quiet
              /\ data'[c].m_status = data[c].m_status
    BY <2>2, <2>3
  <2>6. Quiet.at = "idle" /\ c # None /\ push # Quiet
    BY <2>2, <2>4, PushFields, Distinct
  <2>7. \A e \in Unbinding : e \in Unbinding'
    BY <2>4, UnbindingOf
  <2>8. \A e \in Unbinding' : e \in Unbinding \/ sock'[m_sockfd[e]] = None
    BY <2>4, <2>5, <2>6, UnbindingOf
  <2>9. \A f \in Fds : sock'[f] = sock[f] \/ (sock'[f] = None /\ sock[f] \in Unbinding')
    BY <2>2, <2>3, <2>5, <2>6, UnbindingOf
  <2>10. push' = Quiet \/ hello[push'.conn] = push'.to
    BY <1>0, <2>1, <2>5, <2>6
  <2>11. \A e \in Conns : Greeted(e)' => Greeted(e)
    BY <2>2, <2>4, <2>5 DEF Greeted, Connected, Serves
  <2>12. \A e \in Conns : obj'[e] = "new" => obj[e] = "new"
    BY <2>2, <2>5
  <2>13. QED
    BY <2>4, <2>7, <2>8, <2>9, <2>10, <2>11, <2>12, LinksKept
<1>5. QED
  BY <1>1, <1>2, <1>3, <1>4

Linked == crossed \/ Links

LEMMA LinkedStep == TypeOK /\ Bound /\ Keyed /\ Linked /\ [Next]_vars => Linked'
<1> SUFFICES ASSUME TypeOK, Bound, Keyed, Linked, [Next]_vars, ~crossed'
             PROVE  Links'
  BY DEF Linked
<1>1. TypeOK' /\ Bound'
  BY BoundStep
<1>2. CASE \E c \in Conns, f \in Fds, h \in Sessions \cup {None, NoKey} : Accept(c, f, h)
  <2>1. PICK c \in Conns, f \in Fds, h \in Sessions \cup {None, NoKey} : Accept(c, f, h)
    BY <1>2
  <2>2. Links
    BY <2>1 DEF Linked, Accept
  <2>3. QED
    BY <1>1, <2>1, <2>2, LinksAccept
<1>3. CASE \E f \in Fds : Expire(f) \/ \E w \in Workers : Dispatch(f, w)
  <2>1. Links
    BY <1>3 DEF Linked, Expire, Dispatch, history
  <2>2. QED
    BY <1>1, <1>3, <2>1, LinksOther
<1>4. CASE \E w \in Workers :
             \/ \E n \in 1..2 * (Frames + 1) : Read(w, n)
             \/ ReadFails(w)
             \/ HandleHandshake(w) \/ BindSession(w) \/ ProcessFails(w)
             \/ \E m \in Messages : HandleFrame(w, m)
             \/ WriteOK(w) \/ WriteAgain(w) \/ WriteFails(w) \/ Reinit(w)
             \/ Unbind(w)
  <2>1. crossed' = crossed
    BY <1>4 DEF Read, ReadFails, HandleHandshake, BindSession, ProcessFails, HandleFrame, WriteOK,
                WriteAgain, WriteFails, Reinit, Unbind, history
  <2>2. Links
    BY <2>1 DEF Linked
  <2>3. QED
    BY <1>1, <1>4, <2>2, LinksWorker
<1>5. CASE (\E s \in Sessions : PushFind(s)) \/ PushSend
  <2>1. Links
    BY <1>5 DEF Linked, PushFind, PushSend, history
  <2>2. QED
    BY <1>1, <1>5, <2>1, LinksOther
<1>6. CASE UNCHANGED vars
  <2>1. UNCHANGED <<hello, sock, epoll, m_users, job, obj, m_sockfd, m_is_closed, data, maps,
                    push, pushes, revived, crossed, blurred>>
    BY <1>6 DEF vars, kernel, object, pushing, history
  <2>2. Links
    BY <2>1 DEF Linked
  <2>3. \A e : e \in Unbinding' <=> e \in Unbinding
    BY <2>1, UnbindingOf
  <2>4. \A e \in Conns : Greeted(e)' => Greeted(e)
    BY <2>1 DEF Greeted, Connected, Serves
  <2>5. push' = Quiet \/ hello[push'.conn] = push'.to
    BY <2>1, <2>2 DEF Links, SendsRight
  <2>6. QED
    BY <1>1, <2>1, <2>2, <2>3, <2>4, <2>5, LinksKept
<1>7. QED
  BY <1>2, <1>3, <1>4, <1>5, <1>6 DEF Next

LEMMA LinkedInit == Init => Linked
<1> SUFFICES ASSUME Init
             PROVE  Links
  BY DEF Linked
<1>1. \A d : d \notin Unbinding
  <2>1. \A w \in Workers : job[w].at = "idle"
    BY JobFields DEF Init
  <2>2. push.at = "idle"
    BY PushFields DEF Init
  <2>3. QED
    BY <2>1, <2>2, UnbindingOf
<1>2. MapsAgree /\ Owned /\ SendsRight /\ NewUnnamed
  BY DEF Init, MapsAgree, Owned, SendsRight, NewUnnamed
<1>3. UnbindingClosed
  BY <1>1 DEF UnbindingClosed
<1>4. GreetedFound
  BY DEF Init, GreetedFound, Greeted
<1>5. QED
  BY <1>2, <1>3, <1>4 DEF Links

LEMMA LinkedInvariant == Spec => []Linked
BY LinkedInit, LinkedStep, BoundInvariant, PTL DEF Spec

(* Unless a new client got the number of a closed descriptor before its     *)
(* removeFd, a push finds nobody or a client of its session, and a client   *)
(* that is alone with its session is found, whatever handshakes, timers,    *)
(* failures and destructors on several threads do to the two maps.          *)
THEOREM PushesFindTheirSession == Spec => []SessionsAgree
<1>1. ASSUME TypeOK, Bound, Linked
      PROVE  SessionsAgree
  <2> SUFFICES ASSUME Links
               PROVE  SessionsAgree
    BY <1>1 DEF Linked, SessionsAgree
  <2>1. ASSUME NEW s \in Sessions, NEW f, f = m_session_to_fd[s], f # None, m_users[f] # None
        PROVE  hello[m_users[f]] = s
    <3>1. f \in Fds /\ m_fd_to_session[f] = s /\ s # None
      BY <1>1, <2>1, Distinct DEF TypeOK, Links, MapsAgree
    <3>2. Owner(f, s)
      BY <3>1 DEF Links, Owned
    <3>3. m_users[f] \in Conns /\ sock[f] = m_users[f]
      BY <1>1, <2>1, <3>1 DEF TypeOK, Bound, UsersLive, LiveOpen
    <3>4. QED
      BY <2>1, <3>2, <3>3 DEF Owner
  <2>2. push.conn # None => hello[push.conn] = push.to
    BY PushFields DEF Links, SendsRight
  <2>3. ASSUME NEW c \in Conns, obj[c] = "live", Connected(c),
               hello[c] # None, \A d \in Conns \ {c} : hello[d] # hello[c]
        PROVE  m_session_to_fd[hello[c]] = m_sockfd[c]
    BY <2>3 DEF Links, GreetedFound, Greeted, Found, AloneWith
  <2>4. QED
    BY <2>1, <2>2, <2>3 DEF SessionsAgree
<1>2. QED
  BY <1>1, BoundInvariant, LinkedInvariant, PTL

-----------------------------------------------------------------------------
(* Frames                                                                  *)

(* k units are gone; the read buffer and the wire hold the others.          *)
Stream(k, buf, q) ==
  /\ k + Len(buf) + Len(q) = 2 * (Frames + 1)
  /\ \A i \in 1..Len(buf) : buf[i] = Unit(k + i)
  /\ \A i \in 1..Len(q) : q[i] = Unit(k + Len(buf) + i)

(* What was dispatched is the frames among the k units that are gone.       *)
Counts(h, k) == k = 2 * (Len(h) + 1) /\ \A i \in 1..Len(h) : h[i] = i

Orderly(s, buf, q, h) ==
  \E k \in Nat : /\ Stream(k, buf, q)
                 /\ s = "HANDSHAKE" => h = <<>>
                 /\ s = "CONNECTED" => Counts(h, k)

(* The handshake counts as such until bindSession is over.                  *)
Phase(c) == IF Connected(c) THEN "CONNECTED" ELSE "HANDSHAKE"
OrderedConn(s, d) == Orderly(s, d.m_read_buf, d.wire, d.handled)
Ordered == \A c \in Conns \ blurred : obj[c] = "live" => OrderedConn(Phase(c), data[c])

(* Two workers serve one connection only if a push let them.                *)
ServedOnce == \A c \in Conns \ blurred : \A v, w \in Workers :
                Serves(v, c) /\ Serves(w, c) => v = w

LEMMA ServedOnceStep ==
  ASSUME TypeOK, Bound, ServedOnce, Next
  PROVE  ServedOnce'
<1> SUFFICES ASSUME NEW c \in Conns, c \notin blurred', NEW v \in Workers, NEW w \in Workers,
                    Serves(v, c)', Serves(w, c)', v # w
             PROVE  FALSE
  BY DEF ServedOnce
<1>0. c # None
  BY Distinct
<1>1. CASE job' = job /\ blurred' = blurred
  BY <1>1 DEF ServedOnce, Serves
<1>2. ASSUME NEW f \in Fds, NEW u \in Workers, Dispatch(f, u)
      PROVE  FALSE
  <2>1. /\ job[u] = Idle
        /\ blurred' = IF \E x \in Workers : Serves(x, m_users[f]) THEN blurred \cup {m_users[f]}
                                                                  ELSE blurred
    BY <1>2 DEF Dispatch
  <2>2. PICK l \in {"read", "write"} : job' = [job EXCEPT ![u] = [conn |-> m_users[f], at |-> l]]
    BY <1>2 DEF Dispatch
  <2>3. job'[u].conn = m_users[f] /\ \A x \in Workers : x # u => job'[x] = job[x]
    BY <2>2 DEF TypeOK
  <2>4. c \notin blurred
    BY <2>1
  <2>5. ASSUME NEW x \in Workers, NEW y \in Workers, x # y, y # u, Serves(x, c)', Serves(y, c)'
        PROVE  FALSE
    <3>1. Serves(y, c)
      BY <2>3, <2>5 DEF Serves
    <3>2. CASE x = u
      <4>1. c = m_users[f]
        BY <2>3, <2>5, <3>2 DEF Serves
      <4>2. QED
        BY <2>1, <3>1, <4>1
    <3>3. CASE x # u
      BY <2>3, <2>4, <2>5, <3>1, <3>3 DEF ServedOnce, Serves
    <3>4. QED
      BY <3>2, <3>3
  <2>6. QED
    BY <2>5
<1>3. ASSUME NEW u \in Workers, Moves(u), blurred \subseteq blurred'
      PROVE  FALSE
  <2>1. \A x \in Workers : Serves(x, c)' => Serves(x, c)
    <3>1. Idle.conn = None
      BY JobFields
    <3>2. QED
      BY <1>0, <1>3, <3>1 DEF Moves, Ends, Goes, Serves
  <2>2. QED
    BY <1>3, <2>1 DEF ServedOnce
<1>4. QED
  BY <1>1, <1>2, <1>3, JobMoves

LEMMA ServedOnceInvariant == Spec => []ServedOnce
<1>1. Init => ServedOnce
  <2> SUFFICES ASSUME Init
               PROVE  ServedOnce
    OBVIOUS
  <2>1. \A w \in Workers : job[w].conn = None
    BY JobFields DEF Init
  <2>2. \A c \in Conns : c # None
    BY Distinct
  <2>3. QED
    BY <2>1, <2>2 DEF ServedOnce, Serves
<1>2. ServedOnce /\ UNCHANGED vars => ServedOnce'
  BY DEF vars, history, ServedOnce, Serves
<1>3. QED
  BY <1>1, <1>2, ServedOnceStep, BoundInvariant, PTL DEF Spec

(* Other connections do not notice what a worker does with c.               *)
LEMMA Elsewhere ==
  ASSUME NEW c, NEW w \in Workers, job[w].conn \in {c, None}, job'[w].conn \in {c, None},
         \A v \in Workers : v # w => job'[v] = job[v],
         NEW e \in Conns, e # c, data'[e] = data[e]
  PROVE  Connected(e)' <=> Connected(e)
<1>1. e # None
  BY Distinct
<1>2. \A v \in Workers : Serves(v, e) \/ Serves(v, e)' => job'[v] = job[v]
  BY <1>1 DEF Serves
<1>3. QED
  BY <1>2 DEF Connected, Serves

(* A worker that goes on with its closure.                                  *)
LEMMA PhaseKept ==
  ASSUME TypeOK, Bound, NEW w \in Workers,
         (\E n : Read(w, n)) \/ HandleHandshake(w) \/ WriteOK(w)
  PROVE  \A e \in Conns : Connected(e)' <=> Connected(e)
<1>1. PICK c : c = job[w].conn
  OBVIOUS
<1>2. job[w].at # "bind" /\ job[w].at # "unbind"
  BY DEF Read, HandleHandshake, WriteOK
<1>3. PICK l \in {"process", "bind", "init"} : job' = [job EXCEPT ![w] = [conn |-> c, at |-> l]]
  BY <1>1 DEF Read, HandleHandshake, WriteOK
<1>4. /\ job'[w].conn = c /\ job'[w].at = l
      /\ \A v \in Workers : v # w => job'[v] = job[v]
  BY <1>3 DEF TypeOK
<1>5. \A e \in Conns : e # c => data'[e] = data[e]
  BY <1>1, ReadStep, HandshakeStep, WriteStep
<1>6. \A e \in Conns : e # c => (Connected(e)' <=> Connected(e))
  BY <1>1, <1>4, <1>5, Elsewhere
<1>7. CASE (\E n : Read(w, n)) \/ WriteOK(w)
  <2>1. data'[c].m_status = data[c].m_status
    BY <1>1, <1>7, ReadStep, WriteStep
  <2>2. l # "bind"
    <3>1. PICK k \in {"process", "init"} : job' = [job EXCEPT ![w] = [conn |-> c, at |-> k]]
      BY <1>1, <1>7 DEF Read, WriteOK
    <3>2. QED
      BY <1>4, <3>1 DEF TypeOK
  <2>3. Connected(c)' <=> Connected(c)
    BY <1>2, <1>4, <2>1, <2>2 DEF Connected, Serves
  <2>4. QED
    BY <1>6, <2>3
<1>8. CASE HandleHandshake(w)
  <2>1. data[c].m_status # "CONNECTED"
    BY <1>1, <1>8 DEF HandleHandshake
  <2>2. l = "bind"
    <3>1. job' = [job EXCEPT ![w] = [conn |-> c, at |-> "bind"]]
      BY <1>1, <1>8 DEF HandleHandshake
    <3>2. QED
      BY <1>4, <3>1 DEF TypeOK
  <2>3. ~Connected(c) /\ ~Connected(c)'
    BY <1>4, <2>1, <2>2 DEF Connected, Serves
  <2>4. QED
    BY <1>6, <2>3
<1>9. QED
  BY <1>7, <1>8

LEMMA StreamRead ==
  ASSUME NEW k \in Nat, NEW buf \in Seq(Units), NEW q \in Seq(Units), NEW n \in Nat,
         1 <= n, n <= Len(q), Stream(k, buf, q)
  PROVE  Stream(k, buf \o SubSeq(q, 1, n), SubSeq(q, n + 1, Len(q)))
<1>1. PICK a \in Nat, b \in Nat : a = Len(buf) /\ b = Len(q) /\ n <= b
  BY LenProperties
<1>0. n <= b
  BY <1>1
<1>2. PICK x : x = buf \o SubSeq(q, 1, n)
  OBVIOUS
<1>3. PICK y : y = SubSeq(q, n + 1, Len(q))
  OBVIOUS
<1>4. /\ Len(x) = a + n /\ Len(y) = b - n
      /\ \A i \in 1..a + n : x[i] = IF i <= a THEN buf[i] ELSE q[i - a]
      /\ \A i \in 1..b - n : y[i] = q[n + i]
  <2>1. n \in 1..Len(q)
    BY <1>1
  <2>2. QED
    BY <1>1, <1>2, <1>3, <2>1, Cut
<1>5. PICK t \in Nat : t = 2 * (Frames + 1)
  BY BoundsNat
<1>6. /\ k + a + b = t /\ \A i \in 1..a : buf[i] = Unit(k + i)
      /\ \A i \in 1..b : q[i] = Unit(k + a + i)
  BY <1>1, <1>5 DEF Stream
<1>7. ASSUME NEW i \in 1..a + n
      PROVE  x[i] = Unit(k + i)
  <2>1. CASE i <= a
    <3>1. i \in 1..a
      BY <2>1
    <3>2. x[i] = buf[i]
      BY <1>4, <2>1
    <3>3. QED
      BY <1>6, <3>1, <3>2
  <2>2. CASE ~(i <= a)
    <3>1. PICK j \in 1..b : j = i - a
      BY <1>0, <2>2
    <3>2. x[i] = q[j] /\ k + a + j = k + i
      BY <1>4, <2>2, <3>1
    <3>3. QED
      BY <1>6, <3>2
  <2>3. QED
    BY <2>1, <2>2
<1>8. ASSUME NEW i \in 1..b - n
      PROVE  y[i] = Unit(k + (a + n) + i)
  <2>1. PICK j \in 1..b : j = n + i
    BY <1>1
  <2>2. y[i] = q[j] /\ k + a + j = k + (a + n) + i
    BY <1>4, <2>1
  <2>3. QED
    BY <1>6, <2>2
<1>9. k + (a + n) + (b - n) = t
  BY <1>6
<1>10. Stream(k, x, y)
  BY <1>4, <1>5, <1>7, <1>8, <1>9 DEF Stream
<1>11. QED
  BY <1>2, <1>3, <1>10

(* The head of the read buffer is cut off.                                  *)
LEMMA StreamCut ==
  ASSUME NEW k \in Nat, NEW buf \in Seq(Units), NEW q \in Seq(Units), NEW x, NEW n \in Nat,
         n <= Len(buf), Len(x) = Len(buf) - n,
         \A i \in 1..Len(buf) - n : x[i] = buf[n + i], Stream(k, buf, q)
  PROVE  Stream(k + n, x, q)
<1>1. PICK a \in Nat, b \in Nat : a = Len(buf) /\ b = Len(q)
  BY LenProperties
<1>2. PICK t \in Nat : t = 2 * (Frames + 1)
  BY BoundsNat
<1>3. /\ k + a + b = t /\ \A i \in 1..a : buf[i] = Unit(k + i)
      /\ \A i \in 1..b : q[i] = Unit(k + a + i)
  BY <1>1, <1>2 DEF Stream
<1>4. n <= a /\ Len(x) = a - n /\ \A i \in 1..a - n : x[i] = buf[n + i]
  BY <1>1
<1>5. ASSUME NEW i \in 1..a - n
      PROVE  x[i] = Unit((k + n) + i)
  <2>1. PICK j \in 1..a : j = n + i
    BY <1>4
  <2>2. x[i] = buf[j] /\ k + j = (k + n) + i
    BY <1>4, <2>1
  <2>3. QED
    BY <1>3, <2>2
<1>6. ASSUME NEW i \in 1..b
      PROVE  q[i] = Unit((k + n) + (a - n) + i)
  <2>1. (k + n) + (a - n) + i = k + a + i
    OBVIOUS
  <2>2. QED
    BY <1>3, <2>1
<1>7. (k + n) + (a - n) + b = t
  BY <1>3
<1>8. QED
  BY <1>1, <1>2, <1>4, <1>5, <1>6, <1>7 DEF Stream

(* read: some of the wire goes to the read buffer.                          *)
LEMMA ReadOrder ==
  ASSUME NEW s, NEW buf \in Seq(Units), NEW q \in Seq(Units), NEW h, NEW n \in 1..Len(q),
         Orderly(s, buf, q, h)
  PROVE  Orderly(s, buf \o SubSeq(q, 1, n), SubSeq(q, n + 1, Len(q)), h)
<1>1. PICK k \in Nat : /\ Stream(k, buf, q) /\ (s = "HANDSHAKE" => h = <<>>)
                     /\ (s = "CONNECTED" => Counts(h, k))
  BY DEF Orderly
<1>2. n \in Nat /\ 1 <= n /\ n <= Len(q)
  BY LenProperties
<1>3. Stream(k, buf \o SubSeq(q, 1, n), SubSeq(q, n + 1, Len(q)))
  BY <1>1, <1>2, StreamRead
<1>4. QED
  BY <1>1, <1>3 DEF Orderly

(* init after a time-out: the read buffer is emptied.                       *)
LEMMA InitOrder ==
  ASSUME NEW s, NEW buf \in Seq(Units), NEW q \in Seq(Units), NEW h, Orderly(s, buf, q, h)
  PROVE  Orderly("HANDSHAKE", <<>>, q, <<>>)
<1>1. PICK k \in Nat : Stream(k, buf, q)
  BY DEF Orderly
<1>2. PICK a \in Nat : a = Len(buf)
  BY LenProperties
<1>3. Len(<<>>) = Len(buf) - a /\ a <= Len(buf) /\ \A i \in 1..Len(buf) - a : <<>>[i] = buf[a + i]
  BY <1>2
<1>4. Stream(k + a, <<>>, q)
  BY <1>1, <1>3, StreamCut
<1>5. k + a \in Nat
  OBVIOUS
<1>6. QED
  BY <1>4, <1>5 DEF Orderly

(* A handshake that is alone in the read buffer.                            *)
LEMMA HandshakeOrder ==
  ASSUME NEW buf \in Seq(Units), NEW q \in Seq(Units), NEW h,
         Orderly("HANDSHAKE", buf, q, h), buf = Handshake
  PROVE  Orderly("CONNECTED", <<>>, q, h)
<1>1. PICK k \in Nat : Stream(k, buf, q) /\ h = <<>>
  BY DEF Orderly
<1>2. Len(buf) = 2 /\ buf[2] = HandshakeEnd
  BY DEF Handshake
<1>3. Unit(k + 2) = HandshakeEnd
  BY <1>1, <1>2 DEF Stream
<1>4. PICK j \in Nat : j = k + 2 /\ j > 0
  OBVIOUS
<1>5. j = 2
  BY <1>3, <1>4, UnitsOfFrames
<1>6. Len(<<>>) = Len(buf) - 2 /\ 2 <= Len(buf) /\ \A i \in 1..Len(buf) - 2 : <<>>[i] = buf[2 + i]
  BY <1>2
<1>7. Stream(k + 2, <<>>, q)
  BY <1>1, <1>6, StreamCut
<1>8. Stream(2, <<>>, q)
  BY <1>4, <1>5, <1>7
<1>9. Counts(h, 2)
  BY <1>1 DEF Counts
<1>10. QED
  BY <1>8, <1>9 DEF Orderly

(* A frame is dispatched: it is the one after those before it.              *)
LEMMA FrameOrder ==
  ASSUME NEW buf \in Seq(Units), NEW q \in Seq(Units), NEW h \in Seq({Junk} \cup (1..Frames)),
         Orderly("CONNECTED", buf, q, h), NEW m \in ParsedFrames(buf), m \in Messages
  PROVE  Orderly("CONNECTED", SubSeq(buf, m.len + 1, Len(buf)), q, Append(h, m.msg))
<1>1. PICK k \in Nat : Stream(k, buf, q) /\ Counts(h, k)
  BY DEF Orderly
<1>2. PICK a \in Nat, n \in Nat : a = Len(buf) /\ n = Len(h)
  BY LenProperties
<1>3. PICK x : x = SubSeq(buf, m.len + 1, Len(buf))
  OBVIOUS
<1>4. PICK l, v : l = m.len /\ v = m.msg
  OBVIOUS
<1>5. /\ l \in 1..a /\ v \in {Junk} \cup (1..Frames) /\ Len(x) = a - l
      /\ \A i \in 1..a - l : x[i] = buf[l + i]
      /\ buf[1][1] # 0 /\ buf[1][2] = 1 => v = buf[1][1] /\ l = 2
  BY <1>2, <1>3, <1>4, MessageOK
<1>6. k = 2 * (n + 1) /\ \A i \in 1..n : h[i] = i
  BY <1>1, <1>2 DEF Counts
<1>7. buf[1] = Unit(k + 1)
  BY <1>1, <1>2, <1>5 DEF Stream
<1>8. k + 1 = 2 * n + 3
  BY <1>6
<1>9. v = n + 1 /\ l = 2
  <2>1. buf[1][1] = n + 1 /\ buf[1][2] = 1
    BY <1>7, <1>8, UnitsOfFrames
  <2>2. QED
    BY <1>2, <1>5, <2>1
<1>10. 2 <= Len(buf) /\ Len(x) = Len(buf) - 2 /\ \A i \in 1..Len(buf) - 2 : x[i] = buf[2 + i]
  BY <1>2, <1>5, <1>9
<1>11. Stream(k + 2, x, q)
  BY <1>1, <1>10, StreamCut
<1>12. PICK g : g = Append(h, v)
  OBVIOUS
<1>13. Len(g) = n + 1 /\ g[n + 1] = v /\ \A i \in 1..n : g[i] = h[i]
  BY <1>2, <1>5, <1>12, AppendProperties
<1>14. \A i \in 1..n + 1 : g[i] = i
  BY <1>6, <1>9, <1>13
<1>15. Counts(g, k + 2)
  BY <1>6, <1>13, <1>14 DEF Counts
<1>16. k + 2 \in Nat
  OBVIOUS
<1>17. Orderly("CONNECTED", x, q, g)
  BY <1>11, <1>15, <1>16 DEF Orderly
<1>18. QED
  BY <1>3, <1>4, <1>12, <1>17

(* A step that touches no other connection than c.                          *)
LEMMA OrderKept ==
  ASSUME Ordered, NEW c, blurred \subseteq blurred',
         \A e \in Conns : e # c => data'[e] = data[e] /\ obj'[e] = obj[e],
         \A e \in Conns : e # c => (Connected(e)' <=> Connected(e)),
         c \in Conns \ blurred' /\ obj'[c] = "live" => OrderedConn(Phase(c)', data'[c])
  PROVE  Ordered'
<1> SUFFICES ASSUME NEW e \in Conns, e \notin blurred', obj'[e] = "live", e # c
             PROVE  OrderedConn(Phase(e)', data'[e])
  BY DEF Ordered, OrderedConn
<1>1. Phase(e)' = Phase(e)
  BY DEF Phase
<1>2. OrderedConn(Phase(e), data[e])
  BY DEF Ordered
<1>3. QED
  BY <1>1, <1>2

LEMMA OrderReleased ==
  ASSUME Ordered, ServedOnce, NEW w \in Workers, NEW c \in Conns, Serves(w, c), NEW d \in Data,
         LetGo(w, c, d), blurred \subseteq blurred',
         c \notin blurred' => OrderedConn(d.m_status, d)
  PROVE  Ordered'
<1>1. obj'[c] # "live" \/ (data'[c] = d /\ job'[w] = Idle)
  BY DEF LetGo
<1>2. /\ \A e \in Conns : e # c => data'[e] = data[e] /\ obj'[e] = obj[e]
      /\ \A v \in Workers : v # w => job'[v] = job[v]
      /\ job[w].conn = c /\ job'[w].conn \in {c, None} /\ c # None
  BY JobFields, Distinct DEF LetGo, Serves
<1>3. \A e \in Conns : e # c => (Connected(e)' <=> Connected(e))
  BY <1>2, Elsewhere
<1>4. ASSUME c \notin blurred', obj'[c] = "live"
      PROVE  OrderedConn(Phase(c)', data'[c])
  <2>1. data'[c] = d /\ job'[w] = Idle
    BY <1>1, <1>4
  <2>2. \A v \in Workers : v # w => ~Serves(v, c)
    BY <1>4 DEF ServedOnce
  <2>3. \A v \in Workers : ~Serves(v, c)'
    BY <1>2, <2>1, <2>2, JobFields DEF Serves
  <2>4. Phase(c)' = d.m_status
    BY <2>1, <2>3, DataFields DEF Phase, Connected
  <2>5. QED
    BY <1>4, <2>1, <2>4
<1>5. QED
  BY <1>2, <1>3, <1>4, OrderKept

LEMMA OrderWorker ==
  ASSUME TypeOK, Bound, Keyed, ServedOnce, Ordered, NEW w \in Workers,
         \/ ReadFails(w) \/ BindSession(w) \/ ProcessFails(w)
         \/ \E m \in Messages : HandleFrame(w, m)
         \/ WriteAgain(w) \/ WriteFails(w) \/ Reinit(w)
  PROVE  Ordered'
<1>1. PICK c : c = job[w].conn
  OBVIOUS
<1>2. c \in Conns /\ obj[c] = "live" /\ data[c] \in Data /\ Serves(w, c)
  BY <1>1, Serving DEF ReadFails, BindSession, ProcessFails, HandleFrame, WriteAgain, WriteFails,
                       Reinit
<1>3. PICK s \in {"HANDSHAKE", "CONNECTED"}, buf \in Seq(Units), q \in Seq(Units),
          h \in Seq({Junk} \cup (1..Frames)) :
        s = data[c].m_status /\ buf = data[c].m_read_buf /\ q = data[c].wire /\ h = data[c].handled
  BY <1>2, DataFields
<1>4. ASSUME c \notin blurred, job[w].at # "bind"
      PROVE  Orderly(s, buf, q, h)
  <2>1. \A v \in Workers : Serves(v, c) => v = w
    BY <1>2, <1>4 DEF ServedOnce
  <2>2. Phase(c) = s
    BY <1>3, <1>4, <2>1 DEF Phase, Connected
  <2>3. QED
    BY <1>2, <1>3, <1>4, <2>2 DEF Ordered, OrderedConn
<1>5. CASE ReadFails(w) \/ WriteFails(w) \/ ProcessFails(w) \/ WriteAgain(w)
  <2>1. LetGo(w, c, data[c])
    BY <1>1, <1>5, GivesUp, Waits
  <2>2. blurred' = blurred /\ job[w].at # "bind"
    BY <1>5 DEF ReadFails, WriteFails, ProcessFails, WriteAgain, history
  <2>3. c \notin blurred' => OrderedConn(data[c].m_status, data[c])
    BY <1>3, <1>4, <2>2 DEF OrderedConn
  <2>4. QED
    BY <1>2, <2>1, <2>2, <2>3, OrderReleased
<1>6. CASE BindSession(w)
  <2>1. PICK d \in Data : /\ LetGo(w, c, d) /\ d.m_status = s /\ d.m_read_buf = <<>>
                          /\ d.wire = q /\ d.handled = h
    BY <1>1, <1>3, <1>6, BindStep
  <2>2. /\ job[w].at = "bind"
        /\ blurred' = IF buf = Handshake THEN blurred ELSE blurred \cup {c}
    BY <1>1, <1>3, <1>6 DEF BindSession
  <2>3. blurred \subseteq blurred' /\ (c \notin blurred' => buf = Handshake)
    BY <2>2
  <2>4. ASSUME c \notin blurred'
        PROVE  OrderedConn(d.m_status, d)
    <3>1. Phase(c) = "HANDSHAKE"
      BY <1>2, <2>2 DEF Phase, Connected
    <3>2. Orderly("HANDSHAKE", buf, q, h)
      BY <1>2, <1>3, <2>3, <2>4, <3>1 DEF Ordered, OrderedConn
    <3>3. Orderly("CONNECTED", <<>>, q, h)
      BY <2>3, <2>4, <3>2, HandshakeOrder
    <3>4. h = <<>>
      BY <3>2 DEF Orderly
    <3>5. Orderly("HANDSHAKE", <<>>, q, h)
      BY <3>2, <3>4, InitOrder
    <3>6. Orderly(s, <<>>, q, h)
      BY <3>3, <3>5
    <3>7. QED
      BY <2>1, <3>6 DEF OrderedConn
  <2>5. QED
    BY <1>2, <2>1, <2>3, <2>4, OrderReleased
<1>7. ASSUME NEW m \in Messages, HandleFrame(w, m)
      PROVE  Ordered'
  <2>1. PICK d \in Data : /\ LetGo(w, c, d) /\ d.m_status = s
                          /\ d.m_read_buf = SubSeq(buf, m.len + 1, Len(buf))
                          /\ d.wire = q /\ d.handled = Note(c, m.msg)
    BY <1>1, <1>3, <1>7, FrameStep
  <2>2. /\ s = "CONNECTED" /\ m \in ParsedFrames(buf) /\ blurred' = blurred
        /\ job[w].at # "bind"
    BY <1>1, <1>3, <1>7 DEF HandleFrame, history
  <2>3. ASSUME c \notin blurred'
        PROVE  OrderedConn(d.m_status, d)
    <3>1. d.handled = Append(h, m.msg)
      BY <1>3, <2>1, <2>2, <2>3 DEF Note
    <3>2. Orderly("CONNECTED", buf, q, h)
      BY <1>4, <2>2, <2>3
    <3>3. Orderly("CONNECTED", SubSeq(buf, m.len + 1, Len(buf)), q, Append(h, m.msg))
      BY <2>2, <3>2, FrameOrder
    <3>4. QED
      BY <2>1, <2>2, <3>1, <3>3 DEF OrderedConn
  <2>4. QED
    BY <1>2, <2>1, <2>2, <2>3, OrderReleased
<1>8. CASE Reinit(w)
  <2>1. PICK d \in Data : /\ LetGo(w, c, d)
                          /\ \/ d = data[c]
                             \/ /\ d.m_status = "HANDSHAKE" /\ d.m_read_buf = <<>>
                                /\ d.handled = <<>> /\ d.wire = q
    BY <1>1, <1>3, <1>8, ReinitStep
  <2>2. blurred' = blurred /\ job[w].at # "bind"
    BY <1>8 DEF Reinit
  <2>3. ASSUME c \notin blurred'
        PROVE  OrderedConn(d.m_status, d)
    <3>0. Orderly(s, buf, q, h)
      BY <1>4, <2>2, <2>3
    <3>1. CASE d = data[c]
      BY <1>3, <3>0, <3>1 DEF OrderedConn
    <3>2. CASE d.m_status = "HANDSHAKE" /\ d.m_read_buf = <<>> /\ d.handled = <<>> /\ d.wire = q
      <4>1. Orderly("HANDSHAKE", <<>>, q, <<>>)
        BY <3>0, InitOrder
      <4>2. QED
        BY <3>2, <4>1 DEF OrderedConn
    <3>3. QED
      BY <2>1, <3>1, <3>2
  <2>4. QED
    BY <1>2, <2>1, <2>2, <2>3, OrderReleased
<1>9. QED
  BY <1>5, <1>6, <1>7, <1>8

LEMMA OrderSame ==
  ASSUME Ordered, UNCHANGED <<obj, data>>, blurred \subseteq blurred',
         \A e \in Conns : Connected(e)' <=> Connected(e)
  PROVE  Ordered'
<1> SUFFICES ASSUME NEW e \in Conns, e \notin blurred', obj'[e] = "live"
             PROVE  OrderedConn(Phase(e)', data[e])
  BY DEF Ordered, OrderedConn
<1>1. Phase(e)' = Phase(e)
  BY DEF Phase
<1>2. QED
  BY <1>1 DEF Ordered

LEMMA OrderOther ==
  ASSUME TypeOK, Bound, Ordered,
         \/ \E c \in Conns, f \in Fds, h \in Sessions \cup {None, NoKey} : Accept(c, f, h)
         \/ \E f \in Fds : Expire(f) \/ \E w \in Workers : Dispatch(f, w)
         \/ \E w \in Workers : \/ \E n \in 1..2 * (Frames + 1) : Read(w, n)
                               \/ HandleHandshake(w) \/ WriteOK(w) \/ Unbind(w)
         \/ (\E s \in Sessions : PushFind(s)) \/ PushSend
  PROVE  Ordered'
<1>0. (UNCHANGED job /\ UNCHANGED data) => \A e \in Conns : Connected(e)' <=> Connected(e)
  BY DEF Connected, Serves
<1>1. ASSUME NEW c \in Conns, NEW f \in Fds, NEW h \in Sessions \cup {None, NoKey}, Accept(c, f, h)
      PROVE  Ordered'
  <2>1. /\ data'[c] = [NoData EXCEPT !.wire = UnitsFrom(1)]
        /\ \A d \in Conns : d # c => data'[d] = data[d] /\ obj'[d] = obj[d]
    BY <1>1, AcceptStep
  <2>2. PICK q \in Seq(Units) : q = UnitsFrom(1)
    BY UnitsSent
  <2>3. Len(q) = 2 * (Frames + 1) /\ \A i \in 1..Len(q) : q[i] = Unit(i)
    BY <2>2, UnitsSent
  <2>4. Stream(0, <<>>, q)
    <3>1. \A i \in 1..Len(q) : 0 + Len(<<>>) + i = i
      BY LenProperties
    <3>2. 0 + Len(<<>>) + Len(q) = 2 * (Frames + 1)
      BY <2>3, LenProperties
    <3>3. QED
      BY <2>3, <3>1, <3>2 DEF Stream
  <2>5. Orderly("HANDSHAKE", <<>>, q, <<>>)
    BY <2>4 DEF Orderly
  <2>6. OrderedConn("HANDSHAKE", [NoData EXCEPT !.wire = q])
    BY <2>5, NoDataFields DEF OrderedConn
  <2>7. blurred' = blurred /\ job' = job
    BY <1>1 DEF Accept
  <2>8. Phase(c)' = "HANDSHAKE"
    BY <2>1, <2>2, NoDataFields DEF Phase, Connected
  <2>9. \A e \in Conns : e # c => (Connected(e)' <=> Connected(e))
    BY <2>1, <2>7 DEF Connected, Serves
  <2>10. OrderedConn(Phase(c)', data'[c])
    BY <2>1, <2>2, <2>6, <2>8
  <2>11. QED
    BY <2>1, <2>7, <2>9, <2>10, OrderKept
<1>2. ASSUME NEW f \in Fds, Expire(f)
      PROVE  Ordered'
  <2>1. PICK c : c = m_users[f]
    OBVIOUS
  <2>2. blurred' = blurred /\ job' = job
    BY <1>2 DEF Expire, history
  <2>3. CASE obj'[c] = "dead" /\ \A e \in Conns : e # c => data'[e] = data[e] /\ obj'[e] = obj[e]
    <3>1. \A e \in Conns : e # c => (Connected(e)' <=> Connected(e))
      BY <2>2, <2>3 DEF Connected, Serves
    <3>2. QED
      BY <2>2, <2>3, <3>1, OrderKept
  <2>4. CASE UNCHANGED <<obj, data>>
    BY <1>0, <2>2, <2>4, OrderSame
  <2>5. QED
    BY <1>2, <2>1, <2>3, <2>4, ExpireStep
<1>3. ASSUME NEW f \in Fds, NEW w \in Workers, Dispatch(f, w)
      PROVE  Ordered'
  <2>1. blurred \subseteq blurred' /\ UNCHANGED <<obj, data>>
    BY <1>3 DEF Dispatch, object
  <2>2. PICK l \in {"read", "write"} : job' = [job EXCEPT ![w] = [conn |-> m_users[f], at |-> l]]
    BY <1>3 DEF Dispatch
  <2>3. job'[w].at # "bind" /\ \A v \in Workers : v # w => job'[v] = job[v]
    BY <2>2 DEF TypeOK
  <2>4. job[w].at # "bind"
    BY <1>3, JobFields DEF Dispatch
  <2>5. \A e \in Conns : Connected(e)' <=> Connected(e)
    BY <2>1, <2>3, <2>4 DEF Connected, Serves
  <2>6. QED
    BY <2>1, <2>5, OrderSame
<1>4. ASSUME NEW w \in Workers, NEW n, Read(w, n)
      PROVE  Ordered'
  <2>1. PICK c : c = job[w].conn
    OBVIOUS
  <2>2. /\ c \in Conns /\ n \in 1..Len(data[c].wire)
        /\ \A e \in Conns : e # c => data'[e] = data[e]
        /\ data'[c].m_status = data[c].m_status /\ data'[c].handled = data[c].handled
        /\ data'[c].m_read_buf = data[c].m_read_buf \o SubSeq(data[c].wire, 1, n)
        /\ data'[c].wire = Rest(data[c].wire, n)
    <3>1. c \in Conns /\ n \in 1..Len(data[c].wire) /\ \A e \in Conns : e # c => data'[e] = data[e]
      BY <1>4, <2>1, ReadStep
    <3>2. data'[c].m_status = data[c].m_status /\ data'[c].handled = data[c].handled
      BY <1>4, <2>1, ReadStep
    <3>3. data'[c].m_read_buf = data[c].m_read_buf \o SubSeq(data[c].wire, 1, n)
      BY <1>4, <2>1, ReadStep, Zenon
    <3>4. data'[c].wire = Rest(data[c].wire, n)
      BY <1>4, <2>1, ReadStep
    <3>5. QED
      BY <3>1, <3>2, <3>3, <3>4
  <2>3. obj' = obj /\ blurred' = blurred
    BY <1>4 DEF Read, object, history
  <2>4. PICK s \in {"HANDSHAKE", "CONNECTED"}, buf \in Seq(Units), q \in Seq(Units),
             h \in Seq({Junk} \cup (1..Frames)) :
          s = data[c].m_status /\ buf = data[c].m_read_buf /\ q = data[c].wire
          /\ h = data[c].handled
    <3>1. data[c] \in Data
      BY <2>2 DEF TypeOK
    <3>2. QED
      BY <3>1, DataFields
  <2>5. ASSUME c \notin blurred, obj[c] = "live"
        PROVE  OrderedConn(Phase(c), data'[c])
    <3>0. PICK p : p = Phase(c)
      OBVIOUS
    <3>1. Orderly(p, buf, q, h)
      BY <2>2, <2>4, <2>5, <3>0 DEF Ordered, OrderedConn
    <3>2. Orderly(p, buf \o SubSeq(q, 1, n), SubSeq(q, n + 1, Len(q)), h)
      BY <2>2, <2>4, <3>1, ReadOrder
    <3>3. Orderly(p, buf \o SubSeq(q, 1, n), Rest(q, n), h)
      BY <3>2 DEF Rest
    <3>4. QED
      BY <2>2, <2>4, <3>0, <3>3 DEF OrderedConn
  <2>6. \A e \in Conns : Connected(e)' <=> Connected(e)
    BY <1>4, PhaseKept
  <2>7. Phase(c)' = Phase(c)
    BY <2>2, <2>6 DEF Phase
  <2>8. QED
    BY <2>2, <2>3, <2>5, <2>6, <2>7, OrderKept
<1>5. ASSUME NEW w \in Workers, HandleHandshake(w) \/ WriteOK(w)
      PROVE  Ordered'
  <2>1. PICK c : c = job[w].conn
    OBVIOUS
  <2>2. /\ c \in Conns /\ \A e \in Conns : e # c => data'[e] = data[e]
        /\ data'[c].handled = data[c].handled
        /\ data'[c].m_read_buf = data[c].m_read_buf /\ data'[c].wire = data[c].wire
    BY <1>5, <2>1, HandshakeStep, WriteStep
  <2>3. obj' = obj /\ blurred' = blurred
    BY <1>5 DEF HandleHandshake, WriteOK, object, history
  <2>4. c \notin blurred /\ obj[c] = "live" => OrderedConn(Phase(c), data'[c])
    BY <2>2 DEF Ordered, OrderedConn
  <2>5. \A e \in Conns : Connected(e)' <=> Connected(e)
    BY <1>5, PhaseKept
  <2>6. Phase(c)' = Phase(c)
    BY <2>2, <2>5 DEF Phase
  <2>7. QED
    BY <2>2, <2>3, <2>4, <2>5, <2>6, OrderKept
<1>6. ASSUME NEW w \in Workers, Unbind(w)
      PROVE  Ordered'
  <2>1. UNCHANGED <<obj, data, blurred>>
    BY <1>6 DEF Unbind, object, history
  <2>2. job[w].at = "unbind" /\ job' = [job EXCEPT ![w] = Idle]
    BY <1>6 DEF Unbind
  <2>3. \A v \in Workers : job'[v].at = "bind" \/ job[v].at = "bind" => job'[v] = job[v]
    <3>1. job'[w] = Idle /\ \A v \in Workers : v # w => job'[v] = job[v]
      BY <2>2 DEF TypeOK
    <3>2. QED
      BY <2>2, <3>1, JobFields
  <2>4. \A e \in Conns : Connected(e)' <=> Connected(e)
    BY <2>1, <2>3 DEF Connected, Serves
  <2>5. QED
    BY <2>1, <2>4, OrderSame
<1>7. ASSUME NEW s \in Sessions, PushFind(s)
      PROVE  Ordered'
  <2>1. UNCHANGED <<obj, data, blurred, job>>
    BY <1>7 DEF PushFind, object, history
  <2>2. QED
    BY <1>0, <2>1, OrderSame
<1>8. CASE PushSend
  <2>1. PICK c : c = push.conn
    OBVIOUS
  <2>2. /\ c \in Conns /\ obj[c] = "live"
        /\ \A e \in Conns : e # c => data'[e] = data[e] /\ obj'[e] = obj[e]
        /\ \/ obj'[c] = "dead"
           \/ /\ data'[c].m_status = data[c].m_status /\ data'[c].handled = data[c].handled
              /\ data'[c].m_read_buf = data[c].m_read_buf /\ data'[c].wire = data[c].wire
    BY <1>8, <2>1, PushSendStep
  <2>3. blurred' = blurred /\ job' = job
    BY <1>8 DEF PushSend, history
  <2>4. \A e \in Conns : e # c => (Connected(e)' <=> Connected(e))
    BY <2>2, <2>3 DEF Connected, Serves
  <2>5. ASSUME c \notin blurred, obj'[c] = "live"
        PROVE  OrderedConn(Phase(c)', data'[c])
    <3>1. /\ data'[c].m_status = data[c].m_status /\ data'[c].handled = data[c].handled
          /\ data'[c].m_read_buf = data[c].m_read_buf /\ data'[c].wire = data[c].wire
      BY <2>2, <2>5
    <3>2. Phase(c)' = Phase(c)
      BY <2>3, <3>1 DEF Phase, Connected, Serves
    <3>3. QED
      BY <2>2, <2>5, <3>1, <3>2 DEF Ordered, OrderedConn
  <2>6. QED
    BY <2>2, <2>3, <2>4, <2>5, OrderKept
<1>9. QED
  BY <1>1, <1>2, <1>3, <1>4, <1>5, <1>6, <1>7, <1>8

LEMMA OrderedStep == TypeOK /\ Bound /\ Keyed /\ ServedOnce /\ Ordered /\ [Next]_vars => Ordered'
<1> SUFFICES ASSUME TypeOK, Bound, Keyed, ServedOnce, Ordered, [Next]_vars
             PROVE  Ordered'
  OBVIOUS
<1>1. CASE UNCHANGED vars
  <2>1. UNCHANGED <<obj, data, blurred, job>>
    BY <1>1 DEF vars, object, history
  <2>2. \A e \in Conns : Connected(e)' <=> Connected(e)
    BY <2>1 DEF Connected, Serves
  <2>3. QED
    BY <2>1, <2>2, OrderSame
<1>2. CASE Next
  BY <1>2, OrderWorker, OrderOther DEF Next
<1>3. QED
  BY <1>1, <1>2

LEMMA OrderedInvariant == Spec => []Ordered
<1>1. Init => Ordered
  BY DEF Init, Ordered
<1>2. QED
  BY <1>1, OrderedStep, BoundInvariant, ServedOnceInvariant, PTL DEF Spec

(* The frames of a client are dispatched once each and in order, and those  *)
(* that were not are in the read buffer or still to arrive, through partial *)
(* reads, several frames in one read, rounds of EPOLLOUT and calls of init, *)
(* for any number of frames and however the workers interleave.             *)
THEOREM FramesInOrder == Spec => []HandledInOrder
<1>1. ASSUME TypeOK, Ordered
      PROVE  HandledInOrder
  <2>1. SUFFICES ASSUME NEW c \in Conns \ blurred, obj[c] = "live", Connected(c)
                 PROVE  /\ data[c].handled = [i \in 1..Len(data[c].handled) |-> i]
                        /\ data[c].m_read_buf \o data[c].wire = FramesFrom(Len(data[c].handled) + 1)
    BY DEF HandledInOrder
  <2>2. PICK buf \in Seq(Units), q \in Seq(Units), h \in Seq({Junk} \cup (1..Frames)) :
          buf = data[c].m_read_buf /\ q = data[c].wire /\ h = data[c].handled
    <3>1. data[c] \in Data
      BY <1>1 DEF TypeOK
    <3>2. QED
      BY <3>1, DataFields
  <2>3. PICK k \in Nat : Stream(k, buf, q) /\ Counts(h, k)
    BY <1>1, <2>1, <2>2 DEF Ordered, OrderedConn, Orderly, Phase
  <2>4. h = [i \in 1..Len(h) |-> i]
    BY <2>3 DEF Counts
  <2>5. PICK a \in Nat, b \in Nat, n \in Nat : a = Len(buf) /\ b = Len(q) /\ n = Len(h)
    BY LenProperties
  <2>6. PICK t \in Nat : t = 2 * (Frames + 1)
    BY BoundsNat
  <2>7. /\ k + a + b = t /\ \A i \in 1..a : buf[i] = Unit(k + i)
        /\ \A i \in 1..b : q[i] = Unit(k + a + i)
    BY <2>3, <2>5, <2>6 DEF Stream
  <2>8. k = 2 * (n + 1)
    BY <2>3, <2>5 DEF Counts
  <2>9. PICK x \in Seq(Units) : x = buf \o q
    BY ConcatProperties
  <2>10. /\ Len(x) = a + b
         /\ \A i \in 1..a + b : x[i] = IF i <= a THEN buf[i] ELSE q[i - a]
    BY <2>5, <2>9, ConcatProperties
  <2>11. ASSUME NEW i \in 1..a + b
         PROVE  x[i] = Unit(k + i)
    <3>1. CASE i <= a
      <4>1. i \in 1..a
        BY <3>1
      <4>2. QED
        BY <2>7, <2>10, <3>1, <4>1
    <3>2. CASE ~(i <= a)
      <4>1. PICK j \in 1..b : j = i - a
        BY <3>2
      <4>2. x[i] = q[j] /\ k + a + j = k + i
        BY <2>10, <3>2, <4>1
      <4>3. QED
        BY <2>7, <4>2
    <3>3. QED
      BY <3>1, <3>2
  <2>12. FramesFrom(n + 1) = [i \in 1..a + b |-> Unit(k + i)]
    <3>1. 2 * (n + 1) + 1 = k + 1 /\ t - (k + 1) + 1 = a + b
      BY <2>7, <2>8
    <3>2. \A i \in 1..a + b : (k + 1) + i - 1 = k + i
      OBVIOUS
    <3>3. FramesFrom(n + 1) = [i \in 1..t - (k + 1) + 1 |-> Unit((k + 1) + i - 1)]
      BY <2>6, <3>1 DEF FramesFrom, UnitsFrom
    <3>4. FramesFrom(n + 1) = [i \in 1..a + b |-> Unit((k + 1) + i - 1)]
      BY <3>1, <3>3
    <3>5. QED
      BY <3>2, <3>4
  <2>13. x = [i \in 1..a + b |-> Unit(k + i)]
    BY <2>10, <2>11
  <2>14. QED
    BY <2>2, <2>4, <2>5, <2>9, <2>12, <2>13
<1>2. QED
  BY <1>1, BoundInvariant, OrderedInvariant, PTL
==============================================================================
