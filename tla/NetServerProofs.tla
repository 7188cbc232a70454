--------------------------- MODULE NetServerProofs ---------------------------
(***************************************************************************)
(* Proofs about NetServer, for any number of clients, descriptors and      *)
(* workers and in every mode: the types; m_users, the descriptor table and *)
(* epoll agree; at most one thread or armed event has a connection; and    *)
(* every connection in m_users has a timer.  The invariants Threads (what  *)
(* the loop and the workers are at) and Sound (what each descriptor, task, *)
(* event and connection is to the others) are what the step needs to know. *)
(***************************************************************************)
EXTENDS NetServer, SequenceTheorems, FiniteSetTheorems, TLAPS

LEMMA TaskFields ==
  /\ \A t \in Task : t.kind \in {"read", "process", "write"} /\ t.fd \in Fds /\ t.conn \in Conns
  /\ NoTask.fd = None /\ NoTask.conn = None /\ NoTask \notin Task
<1>1. \A t \in Task : t.kind \in {"read", "process", "write"} /\ t.fd \in Fds /\ t.conn \in Conns
  BY DEF Task
<1>2. NoTask.fd = None /\ NoTask.conn = None
  BY DEF NoTask
<1>3. QED
  BY <1>1, <1>2, NoneIsNothing

LEMMA EventFields ==
  /\ \A e \in Event : e.fd \in Fds /\ e.ev \in {"in", "out"}
  /\ ListenEvent.fd = None /\ SignalEvent.fd = None
  /\ ListenEvent \notin Event /\ SignalEvent \notin Event
<1>1. \A e \in Event : e.fd \in Fds /\ e.ev \in {"in", "out"}
  BY DEF Event
<1>2. ListenEvent.fd = None /\ SignalEvent.fd = None
  BY DEF ListenEvent, SignalEvent
<1>3. QED
  BY <1>1, <1>2, NoneIsNothing

LEMMA EventExt == \A d, e \in Event : d.fd = e.fd /\ d.ev = e.ev => d = e
BY DEF Event

LEMMA NewTask ==
  ASSUME NEW k \in {"read", "process", "write"}, NEW f \in Fds, NEW c \in Conns
  PROVE  /\ [kind |-> k, fd |-> f, conn |-> c] \in Task
         /\ [kind |-> k, fd |-> f, conn |-> c].fd = f
         /\ [kind |-> k, fd |-> f, conn |-> c].conn = c
BY DEF Task

Injective(s) == \A i, j \in 1..Len(s) : s[i] = s[j] => i = j
Occurs(x, s) == \E i \in 1..Len(s) : s[i] = x

(* Cancelling the timer of f, which has at most one.                        *)
LEMMA RemoveTimer ==
  ASSUME NEW S, NEW s \in Seq(S), NEW f, Injective(s)
  PROVE  /\ RemoveFirst(s, f) \in Seq(S)
         /\ Injective(RemoveFirst(s, f))
         /\ ~Occurs(f, RemoveFirst(s, f))
         /\ \A x : x # f => (Occurs(x, RemoveFirst(s, f)) <=> Occurs(x, s))
<1>1. CASE ~Occurs(f, s)
  <2>1. RemoveFirst(s, f) = s
    BY <1>1 DEF RemoveFirst, Occurs
  <2>2. QED
    BY <1>1, <2>1
<1>2. CASE Occurs(f, s)
  <2>1. PICK k \in 1..Len(s) : s[k] = f
    BY <1>2 DEF Occurs
  <2>2. {i \in 1..Len(s) : s[i] = f} = {k}
    BY <2>1 DEF Injective
  <2>3. Len(s) \in Nat /\ k \in Int
    BY LenProperties
  <2>4. Min({k}) = k
    BY <2>3 DEF Min
  <2>5. SelectInSeq(s, LAMBDA v : v = f) = k
    BY <2>2, <2>4 DEF SelectInSeq
  <2>6. RemoveFirst(s, f) = SubSeq(s, 1, k - 1) \o SubSeq(s, k + 1, Len(s))
    BY <1>2, <2>5 DEF RemoveFirst, Occurs, RemoveAt
  <2> DEFINE a == SubSeq(s, 1, k - 1)
             b == SubSeq(s, k + 1, Len(s))
             r == a \o b
  <2>7. /\ a \in Seq(S) /\ Len(a) = k - 1
        /\ \A i \in 1..k - 1 : a[i] = s[i]
    BY <2>3, SubSeqProperties
  <2>8. /\ b \in Seq(S) /\ Len(b) = Len(s) - k
        /\ \A i \in 1..Len(s) - k : b[i] = s[k + i]
    BY <2>3, SubSeqProperties
  <2> HIDE DEF a, b
  <2>9. r \in Seq(S) /\ Len(r) = Len(s) - 1
    <3>1. r \in Seq(S) /\ Len(r) = Len(a) + Len(b)
      BY <2>7, <2>8, ConcatProperties
    <3>2. QED
      BY <2>3, <2>7, <2>8, <3>1
  <2>10. \A i \in 1..Len(s) - 1 : r[i] = IF i < k THEN s[i] ELSE s[i + 1]
    <3> SUFFICES ASSUME NEW i \in 1..Len(s) - 1
                 PROVE  r[i] = IF i < k THEN s[i] ELSE s[i + 1]
      OBVIOUS
    <3>1. CASE i < k
      BY <2>3, <2>7, <2>8, <3>1, ConcatProperties
    <3>2. CASE ~(i < k)
      <4>1. r[i] = b[i - (k - 1)] /\ i - (k - 1) \in 1..Len(s) - k
        BY <2>3, <2>7, <2>8, <3>2, ConcatProperties
      <4>2. QED
        BY <2>3, <2>8, <3>2, <4>1
    <3>3. QED
      BY <3>1, <3>2
  <2> HIDE DEF r
  <2>11. Injective(r)
    <3> SUFFICES ASSUME NEW i \in 1..Len(r), NEW j \in 1..Len(r), r[i] = r[j]
                 PROVE  i = j
      BY DEF Injective
    <3>1. i \in 1..Len(s) - 1 /\ j \in 1..Len(s) - 1
      BY <2>9
    <3> DEFINE h(n) == IF n < k THEN n ELSE n + 1
    <3>2. r[i] = s[h(i)] /\ r[j] = s[h(j)] /\ h(i) \in 1..Len(s) /\ h(j) \in 1..Len(s)
      BY <2>3, <2>10, <3>1
    <3>3. h(i) = h(j)
      BY <3>2 DEF Injective
    <3>4. QED
      BY <2>3, <3>1, <3>3
  <2>12. ~Occurs(f, r)
    <3> SUFFICES ASSUME NEW i \in 1..Len(r), r[i] = f
                 PROVE  FALSE
      BY DEF Occurs
    <3>1. i \in 1..Len(s) - 1
      BY <2>9
    <3>2. (i < k /\ s[i] = f) \/ (~(i < k) /\ s[i + 1] = f)
      BY <2>10, <3>1
    <3>3. QED
      BY <2>1, <2>3, <3>1, <3>2 DEF Injective
  <2>13. ASSUME NEW x, x # f
         PROVE  Occurs(x, r) <=> Occurs(x, s)
    <3>1. ASSUME NEW i \in 1..Len(r), r[i] = x
          PROVE  Occurs(x, s)
      <4>1. i \in 1..Len(s) - 1
        BY <2>9
      <4>2. (i \in 1..Len(s) /\ s[i] = x) \/ (i + 1 \in 1..Len(s) /\ s[i + 1] = x)
        BY <2>3, <2>10, <3>1, <4>1
      <4>3. QED
        BY <4>2 DEF Occurs
    <3>2. ASSUME NEW i \in 1..Len(s), s[i] = x
          PROVE  Occurs(x, r)
      <4>1. i # k
        BY <2>1, <2>13, <3>2
      <4>2. CASE i < k
        <5>1. i \in 1..Len(r) /\ r[i] = x
          BY <2>3, <2>9, <2>10, <3>2, <4>2
        <5>2. QED
          BY <5>1 DEF Occurs
      <4>3. CASE i > k
        <5>1. i - 1 \in 1..Len(r) /\ r[i - 1] = s[(i - 1) + 1] /\ (i - 1) + 1 = i
          BY <2>3, <2>9, <2>10, <4>3
        <5>2. QED
          BY <3>2, <5>1 DEF Occurs
      <4>4. QED
        BY <2>3, <4>1, <4>2, <4>3
    <3>3. QED
      BY <3>1, <3>2 DEF Occurs
  <2>14. QED
    BY <2>6, <2>9, <2>11, <2>12, <2>13 DEF r, a, b
<1>3. QED
  BY <1>1, <1>2

LEMMA AppendOccurs ==
  ASSUME NEW S, NEW s \in Seq(S), NEW e \in S
  PROVE  /\ Append(s, e) \in Seq(S)
         /\ Occurs(e, Append(s, e))
         /\ \A x : Occurs(x, s) => Occurs(x, Append(s, e))
         /\ \A x : x # e /\ Occurs(x, Append(s, e)) => Occurs(x, s)
         /\ Injective(s) /\ ~Occurs(e, s) => Injective(Append(s, e))
<1>1. /\ Len(s) \in Nat /\ Append(s, e) \in Seq(S) /\ Len(Append(s, e)) = Len(s) + 1
      /\ \A i \in 1..Len(s) : Append(s, e)[i] = s[i]
      /\ Append(s, e)[Len(s) + 1] = e
  BY LenProperties, AppendProperties
<1>2. QED
  BY <1>1 DEF Occurs, Injective

LEMMA TailOccurs ==
  ASSUME NEW S, NEW s \in Seq(S), s # <<>>
  PROVE  /\ Head(s) \in S /\ Tail(s) \in Seq(S) /\ Occurs(Head(s), s)
         /\ \A x : Occurs(x, Tail(s)) => Occurs(x, s)
         /\ \A x : x # Head(s) /\ Occurs(x, s) => Occurs(x, Tail(s))
         /\ Injective(s) => Injective(Tail(s)) /\ ~Occurs(Head(s), Tail(s))
<1>1. /\ Len(s) \in Nat /\ Len(s) > 0 /\ Head(s) \in S /\ Tail(s) \in Seq(S)
      /\ Len(Tail(s)) = Len(s) - 1 /\ Head(s) = s[1]
      /\ \A i \in 1..Len(s) - 1 : Tail(s)[i] = s[i + 1]
  BY LenProperties, HeadTailProperties, EmptySeq
<1>2. \A x : Occurs(x, Tail(s)) => Occurs(x, s)
  BY <1>1 DEF Occurs
<1>3. ASSUME NEW x, x # Head(s), Occurs(x, s)
      PROVE  Occurs(x, Tail(s))
  <2>1. PICK i \in 1..Len(s) : s[i] = x
    BY <1>3 DEF Occurs
  <2>2. i # 1 /\ i - 1 \in 1..Len(s) - 1
    BY <1>1, <1>3, <2>1
  <2>3. Tail(s)[i - 1] = s[(i - 1) + 1] /\ (i - 1) + 1 = i
    BY <1>1, <2>2
  <2>4. QED
    BY <1>1, <2>1, <2>2, <2>3 DEF Occurs
<1>4. ASSUME Injective(s)
      PROVE  Injective(Tail(s)) /\ ~Occurs(Head(s), Tail(s))
  BY <1>1, <1>4 DEF Occurs, Injective
<1>5. Occurs(Head(s), s)
  BY <1>1 DEF Occurs
<1>6. QED
  BY <1>1, <1>2, <1>3, <1>4, <1>5

-----------------------------------------------------------------------------
(* Types *)

(* What the threads' places say about their locals.                         *)
Threads ==
  /\ mpc \in {"accepted", "installed", "read", "erase", "close", "tickclose"} <=> mfd # None
  /\ mpc \in {"accepted", "installed", "read", "close", "tickclose"} <=> mconn # None
  /\ mpc = "wait" => batch = {}
  /\ mpc = "tickclose" => timers # <<>> /\ Head(timers) = mfd
  /\ \A w \in Workers : wpc[w] \in {"idle", "exited"} <=> job[w] = NoTask
  /\ \A w \in Workers : wpc[w] = "close" <=> wconn[w] # None

LEMMA CloseTypes ==
  ASSUME TypeOK, NEW C, NEW D, NEW X, CloseConns(C, D, X)
  PROVE  /\ owner' \in [Fds -> Conns \cup {None}]
         /\ interest' \in [Fds -> {"none", "off", "in", "out"}]
         /\ sent' \in [Conns -> 0..(Fragments + 1)]
         /\ inb' \in [Conns -> 0..Fragments]
         /\ eof' \in [Conns -> BOOLEAN]
         /\ m_sockfd' \in [Conns -> Fds \cup {None}]
         /\ m_is_closed' \in [Conns -> BOOLEAN]
         /\ got' \in [Conns -> 0..Fragments]
         /\ parsed' \in [Conns -> BOOLEAN]
         /\ resp' \in [Conns -> {"none", "keep", "close"}]
<1>1. owner' \in [Fds -> Conns \cup {None}]
  BY DEF TypeOK, CloseConns
<1>2. interest' \in [Fds -> {"none", "off", "in", "out"}]
  BY DEF TypeOK, CloseConns
<1> 0 \in 0..Fragments /\ 0 \in 0..(Fragments + 1)
  BY SomeFragments
<1>3. sent' \in [Conns -> 0..(Fragments + 1)]
  BY DEF TypeOK, CloseConns
<1>4. inb' \in [Conns -> 0..Fragments]
  BY DEF TypeOK, CloseConns
<1>5. eof' \in [Conns -> BOOLEAN]
  BY Zenon DEF TypeOK, CloseConns
<1>6. m_sockfd' \in [Conns -> Fds \cup {None}]
  BY DEF TypeOK, CloseConns
<1>7. m_is_closed' \in [Conns -> BOOLEAN]
  BY Zenon DEF TypeOK, CloseConns
<1>8. got' \in [Conns -> 0..Fragments]
  BY DEF TypeOK, CloseConns
<1>9. resp' \in [Conns -> {"none", "keep", "close"}]
  BY DEF TypeOK, CloseConns
<1>10. parsed' \in [Conns -> BOOLEAN]
  BY Zenon DEF TypeOK, CloseConns
<1>11. QED
  BY <1>1, <1>2, <1>3, <1>4, <1>5, <1>6, <1>7, <1>8, <1>9, <1>10

LEMMA TypeStep == TypeOK /\ Threads /\ [Next]_vars => TypeOK'
<1> SUFFICES ASSUME TypeOK, Threads, [Next]_vars PROVE TypeOK'
  OBVIOUS
<1> USE DEF modes, kernel, client, conn, loop, pool
<1>1. ASSUME NEW c \in Conns, Connect(c)
      PROVE  TypeOK'
  BY <1>1 DEF TypeOK, Connect
<1>2. ASSUME NEW c \in Conns, Send(c)
      PROVE  TypeOK'
  <2>1. /\ sent \in [Conns -> 0..(Fragments + 1)] /\ inb \in [Conns -> 0..Fragments]
        /\ Fragments \in Nat /\ inb[c] < Fragments
        /\ sent' = [sent EXCEPT ![c] = IF @ < Fragments THEN @ + 1 ELSE @]
        /\ inb' = [inb EXCEPT ![c] = @ + 1]
    BY <1>2, SomeFragments DEF TypeOK, Send
  <2>2. /\ sent[c] \in 0..(Fragments + 1) /\ inb[c] \in 0..Fragments
        /\ inb[c] + 1 \in 0..Fragments
        /\ (IF sent[c] < Fragments THEN sent[c] + 1 ELSE sent[c]) \in 0..(Fragments + 1)
    BY <2>1
  <2>3. sent' \in [Conns -> 0..(Fragments + 1)] /\ inb' \in [Conns -> 0..Fragments]
    BY <2>1, <2>2
  <2>4. QED
    BY <1>2, <2>3 DEF TypeOK, Send
<1>3. ASSUME NEW c \in Conns, ClientClose(c)
      PROVE  TypeOK'
  BY <1>3 DEF TypeOK, ClientClose
<1>4. CASE Signal
  BY <1>4 DEF TypeOK, Signal, MainPC
<1>5. CASE EpollWait
  BY <1>5 DEF TypeOK, EpollWait, MainPC, Ready
<1>6. CASE TickSkip
  BY <1>6, TailOccurs DEF TypeOK, TickSkip, Injective
<1>7. CASE TickErase
  BY <1>7, TailOccurs DEF TypeOK, TickErase, MainPC
<1>8. CASE TickClose
  <2>1. CloseConns({mconn}, {mfd}, LastRef({mconn}, None))
    BY <1>8 DEF TickClose
  <2>2. timers' \in Seq(Fds) /\ Injective(timers')
    BY <1>8, TailOccurs DEF TypeOK, TickClose, Threads, Injective
  <2>3. QED
    BY <1>8, <2>1, <2>2, CloseTypes DEF TypeOK, TickClose, MainPC, Injective
<1>9. CASE TickEnd
  BY <1>9 DEF TypeOK, TickEnd, MainPC
<1>10. CASE Accept
  <2>1. raced' \in BOOLEAN
    BY <1>10 DEF TypeOK, Accept
  <2>2. QED
    BY <1>10, <2>1 DEF TypeOK, Accept, MainPC
<1>11. CASE AcceptFails
  BY <1>11 DEF TypeOK, AcceptFails
<1>12. CASE InstallConn
  BY <1>12, CloseTypes DEF TypeOK, InstallConn, MainPC
<1>13. ASSUME NEW c, NEW f \in Fds, HttpInit(c, f)
       PROVE  /\ m_sockfd' \in [Conns -> Fds \cup {None}]
              /\ m_is_closed' \in [Conns -> BOOLEAN]
              /\ got' \in [Conns -> 0..Fragments]
              /\ parsed' \in [Conns -> BOOLEAN]
              /\ resp' \in [Conns -> {"none", "keep", "close"}]
  <2>1. m_sockfd' \in [Conns -> Fds \cup {None}]
    BY <1>13 DEF TypeOK, HttpInit
  <2>2. m_is_closed' \in [Conns -> BOOLEAN]
    BY <1>13 DEF TypeOK, HttpInit
  <2>3. got' \in [Conns -> 0..Fragments]
    <3>1. got \in [Conns -> 0..Fragments] /\ got' = [got EXCEPT ![c] = 0] /\ 0 \in 0..Fragments
      BY <1>13, SomeFragments DEF TypeOK, HttpInit
    <3>2. QED
      BY <3>1, Zenon
  <2>4. resp' \in [Conns -> {"none", "keep", "close"}]
    BY <1>13 DEF TypeOK, HttpInit
  <2>5. parsed' \in [Conns -> BOOLEAN]
    BY <1>13 DEF TypeOK, HttpInit
  <2>6. QED
    BY <2>1, <2>2, <2>3, <2>4, <2>5
<1>14. CASE DispatchIgnored
  BY <1>14 DEF TypeOK, DispatchIgnored
<1>16. CASE DispatchRead
  BY <1>16, EventFields DEF TypeOK, DispatchRead, MainPC
<1>18. CASE MainErase
  <2>1. raced' \in BOOLEAN
    BY <1>18 DEF TypeOK, MainErase
  <2>2. m_users' \in [Fds -> Conns \cup {None}] /\ mconn' \in Conns \cup {None}
    BY <1>18 DEF TypeOK, MainErase, Threads
  <2>3. QED
    BY <1>18, <2>1, <2>2 DEF TypeOK, MainErase, MainPC
<1>19. CASE MainClose
  BY <1>19, CloseTypes DEF TypeOK, MainClose, MainPC
<1>20. CASE DispatchEnd
  BY <1>20 DEF TypeOK, DispatchEnd, MainPC
<1>21. CASE Shutdown
  BY <1>21, CloseTypes DEF TypeOK, Shutdown, MainPC
<1>22. CASE ShutdownJoin
  BY <1>22 DEF TypeOK, ShutdownJoin, MainPC
<1>23. ASSUME NEW f \in Fds, RefreshTimer(f)
       PROVE  /\ timers' \in Seq(Fds)
              /\ \A i, j \in 1..Len(timers') : timers'[i] = timers'[j] => i = j
  <2> DEFINE r == RemoveFirst(timers, f)
  <2>1. timers \in Seq(Fds) /\ Injective(timers)
    BY DEF TypeOK, Injective
  <2>2. r \in Seq(Fds) /\ Injective(r) /\ ~Occurs(f, r)
    BY <2>1, RemoveTimer
  <2> HIDE DEF r
  <2>3. Append(r, f) \in Seq(Fds) /\ Injective(Append(r, f))
    BY <2>2, AppendOccurs
  <2>4. QED
    BY <1>23, <2>3 DEF RefreshTimer, Injective, r
<1>24. CASE InitConn
  <2>1. mfd \in Fds
    BY <1>24 DEF TypeOK, Threads, InitConn
  <2>2. RefreshTimer(mfd)
    BY <1>24 DEF InitConn
  <2>3. QED
    BY <1>13, <1>23, <1>24, <2>1, <2>2 DEF TypeOK, InitConn, MainPC
<1>25. CASE DispatchTask
  <2>1. PICK e \in batch \cap Event :
          /\ Closable(e.fd) /\ batch' = batch \ {e}
          /\ m_tasks' = Append(m_tasks, [kind |-> IF e.ev = "out" THEN "write" ELSE "read",
                                         fd |-> e.fd, conn |-> m_users[e.fd]])
    BY <1>25 DEF DispatchTask
  <2>2. e.fd \in Fds /\ m_users[e.fd] \in Conns
    BY <2>1, EventFields DEF TypeOK, Closable
  <2>3. [kind |-> IF e.ev = "out" THEN "write" ELSE "read",
         fd |-> e.fd, conn |-> m_users[e.fd]] \in Task
    BY <2>2, NewTask
  <2>4. m_tasks' \in Seq(Task)
    BY <2>1, <2>3, AppendProperties DEF TypeOK
  <2>5. QED
    BY <1>25, <2>1, <2>4 DEF TypeOK, DispatchTask
<1>26. ASSUME NEW c \in Conns, HttpRead(c)
       PROVE  inb' \in [Conns -> 0..Fragments] /\ got' \in [Conns -> 0..Fragments]
  <2>1. CASE UNCHANGED <<inb, got>>
    BY <2>1 DEF TypeOK
  <2>2. CASE ~UNCHANGED <<inb, got>>
    <3>1. PICK d \in Conns :
            /\ got' = [got EXCEPT ![c] =
                         IF @ + inb[d] > Fragments THEN Fragments ELSE @ + inb[d]]
            /\ inb' = [inb EXCEPT ![d] = 0]
      BY <1>26, <2>2 DEF TypeOK, HttpRead
    <3>2. inb' \in [Conns -> 0..Fragments]
      BY <3>1, SomeFragments DEF TypeOK
    <3>3. got[c] \in 0..Fragments /\ inb[d] \in 0..Fragments
      BY DEF TypeOK
    <3>4. (IF got[c] + inb[d] > Fragments THEN Fragments ELSE got[c] + inb[d]) \in 0..Fragments
      BY <3>3, SomeFragments
    <3>5. got' \in [Conns -> 0..Fragments]
      BY <3>1, <3>4 DEF TypeOK
    <3>6. QED
      BY <3>2, <3>5
  <2>3. QED
    BY <2>1, <2>2
<1>27. CASE MainRead
  <2>1. mfd \in Fds /\ mconn \in Conns
    BY <1>27 DEF TypeOK, Threads, MainRead
  <2>2. [kind |-> "process", fd |-> mfd, conn |-> mconn] \in Task
    BY <2>1, NewTask
  <2>3. m_tasks' \in Seq(Task)
    <3> DEFINE t == [kind |-> "process", fd |-> mfd, conn |-> mconn]
    <3>1. m_tasks' = m_tasks \/ m_tasks' = Append(m_tasks, t)
      BY <1>27 DEF MainRead
    <3>2. t \in Task /\ m_tasks \in Seq(Task)
      BY <2>2 DEF TypeOK
    <3> HIDE DEF t
    <3>3. Append(m_tasks, t) \in Seq(Task)
      BY <3>2, AppendOccurs
    <3>4. QED
      BY <3>1, <3>2, <3>3
  <2>4. inb' \in [Conns -> 0..Fragments] /\ got' \in [Conns -> 0..Fragments]
    BY <1>26, <1>27, <2>1 DEF MainRead
  <2>5. QED
    BY <1>27, <2>3, <2>4 DEF TypeOK, MainRead, MainPC
<1>28. ASSUME NEW w \in Workers, wpc[w] \notin {"idle", "exited"}
       PROVE  job[w] \in Task /\ job[w].fd \in Fds /\ job[w].conn \in Conns
  BY <1>28, TaskFields DEF TypeOK, Threads
<1>29. ASSUME NEW w \in Workers, WorkerTake(w)
       PROVE  TypeOK'
  <2>1. m_tasks \in Seq(Task) /\ m_tasks # <<>>
    BY <1>29 DEF TypeOK, WorkerTake
  <2>2. Head(m_tasks) \in Task /\ Tail(m_tasks) \in Seq(Task)
    BY <2>1, TailOccurs
  <2>3. Head(m_tasks).kind \in WorkerPC
    BY <2>2, TaskFields DEF WorkerPC
  <2>4. QED
    BY <1>29, <2>2, <2>3 DEF TypeOK, WorkerTake, To
<1>44. ASSUME NEW w \in Workers, NEW x \in WorkerPC, To(w, x)
       PROVE  wpc' \in [Workers -> WorkerPC]
  BY <1>44 DEF TypeOK, To
<1>30. ASSUME NEW w \in Workers, WorkerExit(w) \/ WorkerCallback(w)
                                 \/ WorkerCheck(w) \/ WorkerWriteAgain(w) \/ WorkerWriteError(w)
       PROVE  TypeOK'
  <2>1. PICK x \in WorkerPC : To(w, x)
    BY <1>30 DEF WorkerExit, WorkerCallback, WorkerCheck, WorkerWriteAgain, WorkerWriteError,
                 WorkerPC
  <2>2. wpc' \in [Workers -> WorkerPC]
    BY <1>44, <2>1
  <2>3. QED
    BY <1>30, <2>2 DEF TypeOK, WorkerExit, WorkerCallback, WorkerCheck, WorkerWriteAgain,
                       WorkerWriteError
<1>43. ASSUME NEW w \in Workers, WorkerUnprocessed(w)
       PROVE  TypeOK'
  <2>1. parsed' \in [Conns -> BOOLEAN]
    BY <1>43 DEF TypeOK, WorkerUnprocessed, LeftUnprocessed
  <2>2. wpc' \in [Workers -> WorkerPC]
    BY <1>43 DEF TypeOK, WorkerUnprocessed, To, WorkerPC
  <2>3. QED
    BY <1>43, <2>1, <2>2 DEF TypeOK, WorkerUnprocessed
<1>31. ASSUME NEW w \in Workers, WorkerRead(w)
       PROVE  TypeOK'
  <2>1. inb' \in [Conns -> 0..Fragments] /\ got' \in [Conns -> 0..Fragments]
    BY <1>26, <1>28, <1>31 DEF WorkerRead
  <2>2. QED
    BY <1>31, <2>1 DEF TypeOK, WorkerRead, To, WorkerPC
<1>32. ASSUME NEW w \in Workers, WorkerProcessed(w)
       PROVE  TypeOK'
  <2>1. resp' \in [Conns -> {"none", "keep", "close"}]
    BY <1>32 DEF TypeOK, WorkerProcessed
  <2>2. wpc' \in [Workers -> WorkerPC]
    BY <1>32 DEF TypeOK, WorkerProcessed, To, WorkerPC
  <2>3. QED
    BY <1>32, <2>1, <2>2 DEF TypeOK, WorkerProcessed
<1>33. ASSUME NEW w \in Workers, WorkerProcessFails(w)
       PROVE  TypeOK'
  BY <1>33, CloseTypes DEF TypeOK, WorkerProcessFails, To, WorkerPC
<1>34. ASSUME NEW w \in Workers, WorkerModOut(w) \/ WorkerModIn(w)
       PROVE  TypeOK'
  <2>1. interest' \in [Fds -> {"none", "off", "in", "out"}]
    BY <1>34 DEF TypeOK, WorkerModOut, WorkerModIn, ModFd
  <2>2. wpc' \in [Workers -> WorkerPC]
    <3>1. AfterModFd(w) \in WorkerPC /\ To(w, AfterModFd(w))
      BY <1>34 DEF WorkerModOut, WorkerModIn, AfterModFd, WorkerPC
    <3>2. QED
      BY <1>44, <3>1
  <2>3. QED
    BY <1>34, <2>1, <2>2 DEF TypeOK, WorkerModOut, WorkerModIn
<1>35. ASSUME NEW w \in Workers, WorkerRefresh(w)
       PROVE  TypeOK'
  <2>1. job[w].fd \in Fds /\ RefreshTimer(job[w].fd)
    BY <1>28, <1>35 DEF WorkerRefresh
  <2>2. QED
    BY <1>23, <1>35, <2>1 DEF TypeOK, WorkerRefresh, To, WorkerPC
<1>36. ASSUME NEW w \in Workers, WorkerWriteOK(w)
       PROVE  TypeOK'
  <2>1. Peer(w) \in Conns
    BY <1>36, NoneIsNothing, <1>28 DEF TypeOK, WorkerWriteOK, Peer
  <2>2. PICK c : c = job[w].conn
    OBVIOUS
  <2>3. Answered(c, sent[Peer(w)]) \in 0..(Fragments + 1)
    <3>1. sent[Peer(w)] \in 0..(Fragments + 1) /\ Fragments \in Nat
      BY <2>1, SomeFragments DEF TypeOK
    <3>2. QED
      BY <3>1 DEF Answered
  <2>4. sent' = [sent EXCEPT ![Peer(w)] = Answered(c, sent[Peer(w)])]
    BY <1>36, <2>2 DEF WorkerWriteOK
  <2>5. sent' \in [Conns -> 0..(Fragments + 1)]
    BY <2>3, <2>4 DEF TypeOK
  <2>6. wpc' \in [Workers -> WorkerPC]
    BY <1>36 DEF TypeOK, WorkerWriteOK, To, WorkerPC
  <2>7. QED
    BY <1>36, <2>5, <2>6 DEF TypeOK, WorkerWriteOK
<1>37. ASSUME NEW w \in Workers, WorkerInit(w)
       PROVE  TypeOK'
  <2>1. job[w].fd \in Fds
    BY <1>28, <1>37 DEF WorkerInit
  <2>2. QED
    BY <1>13, <1>37, <2>1 DEF TypeOK, WorkerInit, To, WorkerPC
<1>38. ASSUME NEW w \in Workers, WorkerErase(w)
       PROVE  TypeOK'
  <2>1. job[w].fd \in Fds
    BY <1>28, <1>38 DEF WorkerErase
  <2>2. QED
    <3>1. raced' \in BOOLEAN
      BY <1>38 DEF TypeOK, WorkerErase
    <3>2. wpc' \in [Workers -> WorkerPC]
      BY <1>38, <1>44 DEF WorkerErase, WorkerPC
    <3>3. wconn' \in [Workers -> Conns \cup {None}] /\ m_users' \in [Fds -> Conns \cup {None}]
      <4>1. wconn \in [Workers -> Conns \cup {None}] /\ m_users \in [Fds -> Conns \cup {None}]
        BY DEF TypeOK
      <4>2. m_users[job[w].fd] \in Conns \cup {None} /\ None \in Conns \cup {None}
        BY <2>1, <4>1
      <4>3. /\ wconn' = wconn \/ wconn' = [wconn EXCEPT ![w] = m_users[job[w].fd]]
            /\ m_users' = m_users \/ m_users' = [m_users EXCEPT ![job[w].fd] = None]
        BY <1>38 DEF WorkerErase
      <4>4. wconn' \in [Workers -> Conns \cup {None}]
        BY <4>1, <4>2, <4>3
      <4>5. m_users' \in [Fds -> Conns \cup {None}]
        BY <4>1, <4>2, <4>3
      <4>6. QED
        BY <4>4, <4>5
    <3>4. QED
      BY <1>38, <3>1, <3>2, <3>3 DEF TypeOK, WorkerErase
<1>39. ASSUME NEW w \in Workers, WorkerClose(w)
       PROVE  TypeOK'
  BY <1>39, CloseTypes DEF TypeOK, WorkerClose, To, WorkerPC
<1>40. ASSUME NEW w \in Workers, WorkerDone(w)
       PROVE  TypeOK'
  BY <1>40, CloseTypes DEF TypeOK, WorkerDone, To, WorkerPC
<1>41. CASE UNCHANGED vars
  BY <1>41 DEF TypeOK, vars
<1>42. QED
  BY <1>1, <1>2, <1>3, <1>4, <1>5, <1>6, <1>7, <1>8, <1>9, <1>10, <1>11, <1>12, <1>14, <1>16,
     <1>18, <1>19, <1>20, <1>21, <1>22, <1>24, <1>25, <1>27, <1>29, <1>30, <1>31, <1>32, <1>33,
     <1>34, <1>35, <1>36, <1>37, <1>38, <1>39, <1>40, <1>41, <1>43
     DEF Next, MainStep, WorkerStep

LEMMA ThreadsStep == TypeOK /\ Threads /\ [Next]_vars => Threads'
<1> SUFFICES ASSUME TypeOK, Threads, [Next]_vars PROVE Threads'
  OBVIOUS
<1> USE DEF modes, kernel, client, conn, loop, pool
\* A step of the clients or of the main thread.
<1>1. ASSUME UNCHANGED <<wpc, job, wconn>>,
             /\ mpc' \in {"accepted", "installed", "read", "erase", "close", "tickclose"} <=> mfd' # None
             /\ mpc' \in {"accepted", "installed", "read", "close", "tickclose"} <=> mconn' # None
             /\ mpc' = "wait" => batch' = {}
             /\ mpc' = "tickclose" => timers' # <<>> /\ Head(timers') = mfd'
      PROVE  Threads'
  BY <1>1 DEF Threads
<1>2. ASSUME NEW c \in Conns, Connect(c) \/ Send(c) \/ ClientClose(c)
      PROVE  Threads'
  BY <1>2 DEF Threads, Connect, Send, ClientClose
<1>3. CASE Signal
  BY <1>1, <1>3 DEF Threads, Signal
<1>4. CASE EpollWait
  BY <1>1, <1>4 DEF Threads, EpollWait
<1>5. CASE TickSkip \/ TickEnd
  BY <1>1, <1>5 DEF Threads, TickSkip, TickEnd
<1>6. CASE TickErase
  <2>1. Head(timers) \in Fds /\ m_users[Head(timers)] # None
    BY <1>6, TailOccurs DEF TypeOK, TickErase, Closable
  <2>2. QED
    BY <1>1, <1>6, <2>1, NoneIsNothing DEF TickErase
<1>7. CASE TickClose
  BY <1>1, <1>7 DEF TickClose
<1>8. CASE Accept
  BY <1>1, <1>8, NoneIsNothing DEF Accept
<1>9. CASE InstallConn
  BY <1>1, <1>9 DEF Threads, InstallConn
<1>10. CASE AcceptFails \/ InitConn \/ DispatchIgnored \/ DispatchTask
  BY <1>1, <1>10 DEF Threads, AcceptFails, InitConn, DispatchIgnored, DispatchTask
<1>11. CASE DispatchRead
  BY <1>1, <1>11, EventFields, NoneIsNothing DEF DispatchRead, Closable
<1>12. CASE MainRead
  BY <1>1, <1>12 DEF Threads, MainRead
<1>13. CASE MainErase
  BY <1>1, <1>13 DEF Threads, MainErase, Closable
<1>14. CASE MainClose \/ DispatchEnd \/ Shutdown \/ ShutdownJoin
  BY <1>1, <1>14 DEF Threads, MainClose, DispatchEnd, Shutdown, ShutdownJoin
\* A step of a worker.
<1>15. ASSUME NEW w \in Workers, UNCHANGED <<mpc, mfd, mconn, batch>>,
              mpc = "tickclose" => timers' = timers,
              \A v \in Workers : v # w => wpc'[v] = wpc[v] /\ job'[v] = job[v] /\ wconn'[v] = wconn[v],
              wpc'[w] \in {"idle", "exited"} <=> job'[w] = NoTask,
              wpc'[w] = "close" <=> wconn'[w] # None
       PROVE  Threads'
  BY <1>15 DEF Threads
<1>16. ASSUME NEW w \in Workers, WorkerTake(w)
       PROVE  Threads'
  <2>1. m_tasks \in Seq(Task) /\ m_tasks # <<>>
    BY <1>16 DEF TypeOK, WorkerTake
  <2>2. Head(m_tasks) \in Task
    BY <2>1, TailOccurs
  <2>3. Head(m_tasks) # NoTask /\ Head(m_tasks).kind \in {"read", "process", "write"}
    BY <2>2, TaskFields
  <2>4. wconn[w] = None
    BY <1>16 DEF Threads, WorkerTake
  <2>5. /\ wpc'[w] = Head(m_tasks).kind /\ job'[w] = Head(m_tasks)
        /\ \A v \in Workers : v # w => wpc'[v] = wpc[v] /\ job'[v] = job[v]
        /\ UNCHANGED <<mpc, mfd, mconn, batch, timers, wconn>>
    BY <1>16 DEF WorkerTake, To, TypeOK
  <2>6. QED
    BY <1>15, <2>3, <2>4, <2>5
<1>17. ASSUME NEW w \in Workers, WorkerExit(w)
       PROVE  Threads'
  <2>1. wpc[w] = "idle" /\ wpc'[w] = "exited" /\ \A v \in Workers : v # w => wpc'[v] = wpc[v]
    BY <1>17 DEF WorkerExit, To, TypeOK
  <2>2. job[w] = NoTask /\ wconn[w] = None
    BY <2>1 DEF Threads
  <2>3. QED
    BY <1>15, <1>17, <2>1, <2>2 DEF WorkerExit
<1>18. ASSUME NEW w \in Workers, NEW x \in WorkerPC \ {"idle", "exited", "close"},
              wpc[w] \notin {"idle", "exited", "close"}, To(w, x),
              UNCHANGED <<job, wconn, mpc, mfd, mconn, batch>>,
              mpc = "tickclose" => timers' = timers
       PROVE  Threads'
  <2>1. wpc'[w] = x /\ \A v \in Workers : v # w => wpc'[v] = wpc[v]
    BY <1>18 DEF To, TypeOK
  <2>2. job[w] # NoTask /\ wconn[w] = None
    BY <1>18 DEF Threads
  <2>3. QED
    BY <1>15, <1>18, <2>1, <2>2
<1>19. ASSUME NEW w \in Workers, WorkerRead(w)
       PROVE  Threads'
  BY <1>18, <1>19 DEF WorkerRead, WorkerPC
<1>20. ASSUME NEW w \in Workers, WorkerProcessed(w) \/ WorkerUnprocessed(w) \/ WorkerProcessFails(w)
       PROVE  Threads'
  BY <1>18, <1>20 DEF WorkerProcessed, WorkerUnprocessed, WorkerProcessFails, WorkerPC
<1>21. ASSUME NEW w \in Workers, WorkerCallback(w) \/ WorkerCheck(w) \/ WorkerRefresh(w)
       PROVE  Threads'
  BY <1>18, <1>21 DEF WorkerCallback, WorkerCheck, WorkerRefresh, WorkerPC
<1>22. ASSUME NEW w \in Workers, WorkerModOut(w) \/ WorkerModIn(w)
       PROVE  Threads'
  BY <1>18, <1>22 DEF WorkerModOut, WorkerModIn, AfterModFd, WorkerPC
<1>23. ASSUME NEW w \in Workers, WorkerWriteOK(w) \/ WorkerWriteAgain(w) \/ WorkerWriteError(w)
       PROVE  Threads'
  BY <1>18, <1>23 DEF WorkerWriteOK, WorkerWriteAgain, WorkerWriteError, WorkerPC
<1>24. ASSUME NEW w \in Workers, WorkerInit(w)
       PROVE  Threads'
  BY <1>18, <1>24 DEF WorkerInit, WorkerPC
<1>25. ASSUME NEW w \in Workers, WorkerErase(w)
       PROVE  Threads'
  <2>1. CASE Closable(job[w].fd)
    <3>1. /\ wconn'[w] = m_users[job[w].fd] /\ wpc'[w] = "close" /\ wpc[w] = "erase"
          /\ \A v \in Workers : v # w => wpc'[v] = wpc[v] /\ wconn'[v] = wconn[v]
          /\ UNCHANGED <<job, mpc, mfd, mconn, batch, timers>>
      BY <1>25, <2>1 DEF WorkerErase, To, TypeOK
    <3>2. m_users[job[w].fd] # None
      BY <2>1 DEF Closable
    <3>3. job[w] # NoTask
      BY <3>1 DEF Threads
    <3>4. QED
      BY <1>15, <3>1, <3>2, <3>3
  <2>2. CASE ~Closable(job[w].fd)
    BY <1>18, <1>25, <2>2 DEF WorkerErase, WorkerPC
  <2>3. QED
    BY <2>1, <2>2
<1>26. ASSUME NEW w \in Workers, WorkerClose(w)
       PROVE  Threads'
  <2>1. /\ wconn'[w] = None /\ wpc'[w] = "done" /\ wpc[w] = "close"
        /\ \A v \in Workers : v # w => wpc'[v] = wpc[v] /\ wconn'[v] = wconn[v]
        /\ UNCHANGED <<job, mpc, mfd, mconn, batch, timers>>
    BY <1>26 DEF WorkerClose, To, TypeOK
  <2>2. job[w] # NoTask
    BY <2>1 DEF Threads
  <2>3. QED
    BY <1>15, <2>1, <2>2
<1>27. ASSUME NEW w \in Workers, WorkerDone(w)
       PROVE  Threads'
  <2>1. /\ job'[w] = NoTask /\ wpc'[w] \in {"idle", "exited"} /\ wpc[w] = "done"
        /\ \A v \in Workers : v # w => wpc'[v] = wpc[v] /\ job'[v] = job[v]
        /\ UNCHANGED <<wconn, mpc, mfd, mconn, batch, timers>>
    BY <1>27 DEF WorkerDone, To, TypeOK
  <2>2. wconn[w] = None
    BY <2>1 DEF Threads
  <2>3. QED
    BY <1>15, <2>1, <2>2
<1>28. CASE UNCHANGED vars
  BY <1>28 DEF Threads, vars
<1>29. QED
  BY <1>2, <1>3, <1>4, <1>5, <1>6, <1>7, <1>8, <1>9, <1>10, <1>11, <1>12, <1>13, <1>14, <1>16,
     <1>17, <1>19, <1>20, <1>21, <1>22, <1>23, <1>24, <1>25, <1>26, <1>27, <1>28
     DEF Next, MainStep, WorkerStep

LEMMA TypesAlways == Spec => [](TypeOK /\ Threads)
<1>1. Init => TypeOK /\ Threads
  <2> SUFFICES ASSUME Init PROVE TypeOK /\ Threads
    OBVIOUS
  <2>1. m_is_running \in BOOLEAN /\ m_stop \in BOOLEAN /\ raced \in BOOLEAN
    BY Zenon DEF Init
  <2>2. eof \in [Conns -> BOOLEAN] /\ m_is_closed \in [Conns -> BOOLEAN]
    BY Zenon DEF Init
  <2>3. /\ timers \in Seq(Fds) /\ m_tasks \in Seq(Task)
        /\ \A i, j \in 1..Len(timers) : timers[i] = timers[j] => i = j
    BY EmptySeq DEF Init
  <2>4. /\ sent \in [Conns -> 0..(Fragments + 1)] /\ inb \in [Conns -> 0..Fragments]
        /\ got \in [Conns -> 0..Fragments]
    BY SomeFragments DEF Init
  <2>7. parsed \in [Conns -> BOOLEAN]
    BY Zenon DEF Init
  <2>8. TypeOK
    BY <2>1, <2>2, <2>3, <2>4, <2>7 DEF Init, TypeOK, MainPC, WorkerPC
  <2>5. Threads
    BY DEF Init, Threads
  <2>6. QED
    BY <2>5, <2>8
<1>2. QED
  BY <1>1, TypeStep, ThreadsStep, PTL DEF Spec

(* The types, for any number of connections, descriptors and workers, and   *)
(* no timer live twice.                                                     *)
THEOREM TypeCorrect == Spec => []TypeOK
BY TypesAlways, PTL

-----------------------------------------------------------------------------
(* Descriptors *)

(* Who may touch the connection behind f next: the parts of Tokens.         *)
Final == {"check", "refresh", "done"}
Armed(f) == interest[f] \in {"in", "out"}
Fetched(f) == \E e \in batch : e.fd = f
Queued(f) == \E i \in 1..Len(m_tasks) : m_tasks[i].fd = f
Served(f) == \E w \in Workers : job[w].fd = f /\ wpc[w] \notin Final
Handled(f) == mpc \in {"read", "erase", "close"} /\ mfd = f

OneKind(f) ==
  /\ Armed(f) \/ Fetched(f) \/ Queued(f) \/ Served(f) \/ Handled(f)
  /\ Armed(f) => ~Fetched(f) /\ ~Queued(f) /\ ~Served(f) /\ ~Handled(f)
  /\ Fetched(f) => ~Queued(f) /\ ~Served(f) /\ ~Handled(f)
  /\ Queued(f) => ~Served(f) /\ ~Handled(f)
  /\ Served(f) => ~Handled(f)

OneEvent(f) == \A d, e \in batch : d.fd = f /\ e.fd = f => d = e

OneServer(f) ==
  \A v, w \in Workers :
    job[v].fd = f /\ job[w].fd = f /\ wpc[v] \notin Final /\ wpc[w] \notin Final => v = w

(* The tasks that name f: one at most, and for connection c.                *)
TasksOf(f, c) ==
  /\ \A i \in 1..Len(m_tasks) : m_tasks[i].fd = f => m_tasks[i].conn = c
  /\ \A i, j \in 1..Len(m_tasks) : m_tasks[i].fd = f /\ m_tasks[j].fd = f => i = j

(* A closure that is over but for its end, its connection closed; and one   *)
(* that may still try to re-arm the number, after process() closed it.      *)
Gone(w) == wpc[w] \in Final /\ m_is_closed[job[w].conn]
Over(w) == wpc[w] \in Final \cup {"modin"} /\ m_is_closed[job[w].conn]

(* No entry, or the entry of a connection that process() closed.            *)
Stale(f) == m_users[f] = None \/ m_is_closed[m_users[f]]

(* The closures that name f are over, or they are for connection c, which   *)
(* m_users has until one of them erases it to close it.                     *)
WorkersOf(f, c) ==
  \A w \in Workers : job[w].fd = f =>
    \/ Gone(w)
    \/ /\ job[w].conn = c
       /\ wpc[w] = "close" => wconn[w] = c /\ m_users[f] = None
       /\ wpc[w] # "close" => m_users[f] = c

(* What the main thread does with f, it does with connection c.             *)
MainOf(f, c) ==
  mfd = f =>
    /\ mpc \in {"accepted", "installed"} =>
         mconn = c /\ m_sockfd[c] = None /\ Armed(f)
    /\ mpc = "accepted" => Stale(f)
    /\ mpc = "installed" => m_users[f] = c
    /\ mpc \in {"read", "erase"} => m_users[f] = c
    /\ mpc = "read" => mconn = c
    /\ mpc \in {"close", "tickclose"} => mconn = c /\ m_users[f] = None
    /\ mpc = "tickclose" => Armed(f)

Closing(f) ==
  \/ mpc \in {"close", "tickclose"} /\ mfd = f
  \/ \E w \in Workers : wpc[w] = "close" /\ job[w].fd = f

(* A descriptor number that is not in use is nowhere, but for the closure   *)
(* and the entry of a connection that process() closed.                     *)
Free(f) ==
  /\ interest[f] = "none" /\ Stale(f) /\ mfd # f
  /\ ~Fetched(f) /\ ~Queued(f)
  /\ \A w \in Workers : job[w].fd = f => Over(w)

(* One that is in use belongs to the same connection for everyone, and has  *)
(* one owner.                                                               *)
InUse(f, c) ==
  /\ interest[f] # "none" /\ cst[c] = "accepted" /\ ~m_is_closed[c]
  /\ OneKind(f) /\ OneEvent(f) /\ OneServer(f)
  /\ ~Installing(f) => m_sockfd[c] = f /\ (m_users[f] = c \/ (m_users[f] = None /\ Closing(f)))
  /\ Fetched(f) \/ Queued(f) => m_users[f] = c /\ ~Installing(f)
  /\ TasksOf(f, c) /\ WorkersOf(f, c) /\ MainOf(f, c)

FdOK(f) == IF owner[f] = None THEN Free(f) ELSE InUse(f, owner[f])

FreshOK == \A c \in Conns : cst[c] # "accepted" => m_sockfd[c] = None /\ ~m_is_closed[c]

(* What the threads agree on until a connection is closed under a running   *)
(* closure: inductive, and stronger than OneToken and UsersAgree, which     *)
(* say nothing of numbers that are free and of closures' own connections.   *)
Sound == FreshOK /\ \A f \in Fds : FdOK(f)

(* The parts of InUse after a step that leaves f with its entry, or with a  *)
(* thread that closes it.                                                   *)
LEMMA InUseAfter ==
  ASSUME NEW f, NEW c,
         interest'[f] # "none", cst'[c] = "accepted", ~m_is_closed'[c], m_sockfd'[c] = f,
         OneKind(f)', OneEvent(f)', OneServer(f)', ~Installing(f)',
         TasksOf(f, c)', WorkersOf(f, c)', MainOf(f, c)',
         m_users'[f] = c \/ (m_users'[f] = None /\ Closing(f)' /\ ~Fetched(f)' /\ ~Queued(f)')
  PROVE  InUse(f, c)'
<1>1. (m_users[f] = c \/ (m_users[f] = None /\ Closing(f)))'
  OBVIOUS
<1>2. (Fetched(f) \/ Queued(f) => m_users[f] = c)'
  OBVIOUS
<1>3. QED
  BY <1>1, <1>2 DEF InUse

(* A job that names a descriptor is a task.                                 *)
LEMMA JobOf ==
  ASSUME TypeOK, NEW w \in Workers, job[w].fd \in Fds
  PROVE  job[w] \in Task /\ job[w].conn \in Conns /\ job[w] # NoTask
BY TaskFields, NoneIsNothing DEF TypeOK

(* A step that leaves alone all that concerns f.                            *)
LEMMA Untouched ==
  ASSUME TypeOK, NEW f \in Fds, FdOK(f),
         owner'[f] = owner[f], interest'[f] = interest[f], m_users'[f] = m_users[f],
         \A e \in batch \cup batch' : e.fd = f => (e \in batch <=> e \in batch'),
         Queued(f)' <=> Queued(f),
         \A c \in Conns : TasksOf(f, c) => TasksOf(f, c)',
         \A w \in Workers : job[w].fd = f \/ job'[w].fd = f =>
           job'[w] = job[w] /\ wpc'[w] = wpc[w] /\ wconn'[w] = wconn[w],
         mfd = f \/ mfd' = f => mpc' = mpc /\ mfd' = mfd /\ mconn' = mconn,
         \A c \in Conns : owner[f] = c =>
           m_sockfd'[c] = m_sockfd[c] /\ m_is_closed'[c] = m_is_closed[c] /\ cst'[c] = cst[c],
         \A c \in Conns : m_is_closed[c] => m_is_closed'[c]
  PROVE  FdOK(f)'
<1>1. /\ Armed(f)' <=> Armed(f)
      /\ Fetched(f)' <=> Fetched(f)
      /\ Handled(f)' <=> Handled(f)
      /\ Installing(f)' <=> Installing(f)
  BY DEF Armed, Fetched, Handled, Installing
<1>2. (Served(f)' <=> Served(f)) /\ (Closing(f) => Closing(f)')
  BY DEF Served, Closing
<1>3. ASSUME NEW w \in Workers, job'[w].fd = f
      PROVE  (Gone(w) => Gone(w)') /\ (Over(w) => Over(w)')
  <2>1. job'[w] = job[w] /\ wpc'[w] = wpc[w] /\ job[w].conn \in Conns
    BY <1>3, JobOf
  <2>2. QED
    BY <2>1 DEF Gone, Over
<1>7. Stale(f) => Stale(f)'
  <2>1. m_users[f] \in Conns \cup {None}
    BY DEF TypeOK
  <2>2. QED
    BY <2>1 DEF Stale
<1>4. CASE owner[f] = None
  <2>1. Free(f)
    BY <1>4 DEF FdOK
  <2>2. Free(f)'
    BY <1>1, <1>3, <1>7, <2>1 DEF Free
  <2>3. QED
    BY <1>4, <2>2 DEF FdOK
<1>5. CASE owner[f] # None
  <2> DEFINE c == owner[f]
  <2>1. c \in Conns /\ InUse(f, c)
    BY <1>5 DEF FdOK, TypeOK
  <2> HIDE DEF c
  <2>2. m_sockfd'[c] = m_sockfd[c] /\ m_is_closed'[c] = m_is_closed[c] /\ cst'[c] = cst[c]
    BY <2>1 DEF c
  <2>3. OneKind(f)'
    BY <1>1, <1>2, <2>1 DEF InUse, OneKind
  <2>4. OneEvent(f)'
    BY <2>1 DEF InUse, OneEvent
  <2>5. OneServer(f)'
    BY <2>1 DEF InUse, OneServer
  <2>6. TasksOf(f, c)'
    BY <2>1 DEF InUse, c
  <2>7. ASSUME NEW w \in Workers, job'[w].fd = f
        PROVE  \/ Gone(w)'
               \/ /\ job'[w].conn = c
                  /\ wpc'[w] = "close" => wconn'[w] = c /\ m_users'[f] = None
                  /\ wpc'[w] # "close" => m_users'[f] = c
    BY <1>3, <2>1, <2>7 DEF InUse, WorkersOf
  <2>8. MainOf(f, c)'
    BY <1>1, <1>7, <2>1, <2>2 DEF InUse, MainOf, c
  <2>9. InUse(f, c)'
    BY <1>1, <1>2, <2>1, <2>2, <2>3, <2>4, <2>5, <2>6, <2>7, <2>8 DEF InUse, WorkersOf, c
  <2>10. QED
    BY <1>5, <2>9 DEF FdOK, c
<1>6. QED
  BY <1>4, <1>5

(* A task joins the queue.                                                  *)
LEMMA TaskAppended ==
  ASSUME TypeOK, NEW t \in Task, m_tasks' = Append(m_tasks, t)
  PROVE  /\ Queued(t.fd)'
         /\ \A c : ~Queued(t.fd) /\ c = t.conn => TasksOf(t.fd, c)'
         /\ \A f \in Fds : f # t.fd => /\ Queued(f)' <=> Queued(f)
                                       /\ \A c : TasksOf(f, c) => TasksOf(f, c)'
<1>1. /\ Len(m_tasks) \in Nat /\ Len(m_tasks') = Len(m_tasks) + 1
      /\ \A i \in 1..Len(m_tasks) : m_tasks'[i] = m_tasks[i]
      /\ m_tasks'[Len(m_tasks) + 1] = t
  BY LenProperties, AppendProperties DEF TypeOK
<1>2. /\ \A i \in 1..Len(m_tasks') : i \in 1..Len(m_tasks) \/ i = Len(m_tasks) + 1
      /\ \A i \in 1..Len(m_tasks) : i \in 1..Len(m_tasks')
      /\ Len(m_tasks) + 1 \in 1..Len(m_tasks')
  BY <1>1
<1>3. Queued(t.fd)'
  BY <1>1, <1>2 DEF Queued
<1>4. ASSUME NEW c, ~Queued(t.fd), c = t.conn
      PROVE  TasksOf(t.fd, c)'
  <2>1. \A i \in 1..Len(m_tasks') : m_tasks'[i].fd = t.fd => i = Len(m_tasks) + 1
    BY <1>1, <1>2, <1>4 DEF Queued
  <2>2. QED
    BY <1>1, <1>4, <2>1 DEF TasksOf
<1>5. ASSUME NEW f \in Fds, f # t.fd
      PROVE  /\ Queued(f)' <=> Queued(f)
             /\ \A c : TasksOf(f, c) => TasksOf(f, c)'
  <2>1. \A i \in 1..Len(m_tasks') :
          m_tasks'[i].fd = f => i \in 1..Len(m_tasks) /\ m_tasks[i] = m_tasks'[i]
    BY <1>1, <1>2, <1>5
  <2>2. Queued(f)' <=> Queued(f)
    BY <1>1, <1>2, <2>1 DEF Queued
  <2>3. \A c : TasksOf(f, c) => TasksOf(f, c)'
    BY <2>1 DEF TasksOf
  <2>4. QED
    BY <2>2, <2>3
<1>6. QED
  BY <1>3, <1>4, <1>5

(* A worker takes the oldest task.                                          *)
LEMMA TaskTaken ==
  ASSUME TypeOK, m_tasks # <<>>, NEW t, t = Head(m_tasks), m_tasks' = Tail(m_tasks)
  PROVE  /\ t \in Task /\ Queued(t.fd)
         /\ \A c : TasksOf(t.fd, c) => t.conn = c /\ ~Queued(t.fd)' /\ TasksOf(t.fd, c)'
         /\ \A f \in Fds : f # t.fd => /\ Queued(f)' <=> Queued(f)
                                       /\ \A c : TasksOf(f, c) => TasksOf(f, c)'
<1>1. /\ Len(m_tasks) \in Nat /\ Len(m_tasks) > 0
      /\ t \in Task /\ Len(m_tasks') = Len(m_tasks) - 1 /\ t = m_tasks[1]
      /\ \A i \in 1..Len(m_tasks) - 1 : m_tasks'[i] = m_tasks[i + 1]
  BY LenProperties, HeadTailProperties, EmptySeq DEF TypeOK
<1>2. \A i \in 1..Len(m_tasks') :
        i + 1 \in 1..Len(m_tasks) /\ m_tasks'[i] = m_tasks[i + 1] /\ i + 1 # 1
  BY <1>1
<1>3. ASSUME NEW i \in 1..Len(m_tasks), i # 1
      PROVE  i - 1 \in 1..Len(m_tasks') /\ m_tasks'[i - 1] = m_tasks[i]
  <2>1. i - 1 \in 1..Len(m_tasks')
    BY <1>1, <1>3
  <2>2. m_tasks'[i - 1] = m_tasks[(i - 1) + 1] /\ (i - 1) + 1 = i
    BY <1>2, <2>1
  <2>3. QED
    BY <2>1, <2>2
<1>4. 1 \in 1..Len(m_tasks)
  BY <1>1
<1>5. Queued(t.fd)
  BY <1>1, <1>4 DEF Queued
<1>6. ASSUME NEW c, TasksOf(t.fd, c)
      PROVE  t.conn = c /\ ~Queued(t.fd)' /\ TasksOf(t.fd, c)'
  <2>1. t.conn = c
    BY <1>1, <1>4, <1>6 DEF TasksOf
  <2>2. \A i \in 1..Len(m_tasks) : m_tasks[i].fd = t.fd => i = 1
    BY <1>1, <1>4, <1>6 DEF TasksOf
  <2>3. \A i \in 1..Len(m_tasks') : m_tasks'[i].fd # t.fd
    BY <1>2, <2>2
  <2>4. QED
    BY <2>1, <2>3 DEF Queued, TasksOf
<1>7. ASSUME NEW f \in Fds, f # t.fd
      PROVE  /\ Queued(f)' <=> Queued(f)
             /\ \A c : TasksOf(f, c) => TasksOf(f, c)'
  <2>1. Queued(f)' => Queued(f)
    BY <1>2 DEF Queued
  <2>2. Queued(f) => Queued(f)'
    BY <1>1, <1>3, <1>7 DEF Queued
  <2>3. ASSUME NEW c, TasksOf(f, c)
        PROVE  TasksOf(f, c)'
    <3>1. \A i \in 1..Len(m_tasks') : m_tasks'[i].fd = f => m_tasks'[i].conn = c
      BY <1>2, <2>3 DEF TasksOf
    <3>2. ASSUME NEW i \in 1..Len(m_tasks'), NEW j \in 1..Len(m_tasks'),
                 m_tasks'[i].fd = f, m_tasks'[j].fd = f
          PROVE  i = j
      <4>1. i + 1 = j + 1
        BY <1>2, <2>3, <3>2 DEF TasksOf
      <4>2. QED
        BY <4>1
    <3>3. QED
      BY <3>1, <3>2 DEF TasksOf
  <2>4. QED
    BY <2>1, <2>2, <2>3
<1>8. QED
  BY <1>1, <1>5, <1>6, <1>7

(* closeConn of the open connection c of descriptor f.                      *)
LEMMA CloseOne ==
  ASSUME TypeOK, NEW c \in Conns, NEW f \in Fds, NEW D, NEW X, D \subseteq {f},
         ~m_is_closed[c], m_sockfd[c] = f, CloseConns({c}, D, X)
  PROVE  /\ owner'[f] = None /\ interest'[f] = "none"
         /\ \A g \in Fds : g # f => owner'[g] = owner[g] /\ interest'[g] = interest[g]
         /\ m_is_closed'[c]
         /\ \A d \in Conns : d # c =>
              m_sockfd'[d] = m_sockfd[d] /\ m_is_closed'[d] = m_is_closed[d]
<1>1. {d \in {c} : ~m_is_closed[d]} = {c}
  OBVIOUS
<1>2. {m_sockfd[d] : d \in {c}} \ {None} = {f}
  BY NoneIsNothing
<1>3. \A g \in Fds : owner'[g] = IF g \in {f} THEN None ELSE owner[g]
  BY <1>1, <1>2 DEF CloseConns
<1>4. \A g \in Fds : interest'[g] = IF g \in {f} \cup D THEN "none" ELSE interest[g]
  BY <1>1, <1>2 DEF CloseConns
<1>5. \A d \in Conns : m_sockfd'[d] = IF d \in {c} THEN None ELSE m_sockfd[d]
  BY <1>1 DEF CloseConns
<1>6. \A d \in Conns : m_is_closed'[d] = (d \in {c} \/ m_is_closed[d])
  BY DEF CloseConns
<1>7. \A d \in Conns : d # c => m_is_closed'[d] = m_is_closed[d]
  BY <1>6 DEF TypeOK
<1>8. QED
  BY <1>3, <1>4, <1>5, <1>6, <1>7

(* closeConn of connections that are closed closes nothing.                 *)
LEMMA CloseNothing ==
  ASSUME TypeOK, NEW C, NEW X, CloseConns(C, {}, X), \A c \in C : m_is_closed[c]
  PROVE  /\ \A g \in Fds : owner'[g] = owner[g] /\ interest'[g] = interest[g]
         /\ \A d \in Conns : m_sockfd'[d] = m_sockfd[d] /\ m_is_closed'[d] = m_is_closed[d]
<1>1. {d \in C : ~m_is_closed[d]} = {}
  OBVIOUS
<1>2. {m_sockfd[d] : d \in {}} \ {None} = {}
  OBVIOUS
<1>3. \A g \in Fds : owner'[g] = IF g \in {} THEN None ELSE owner[g]
  BY <1>1, <1>2 DEF CloseConns
<1>4. \A g \in Fds : interest'[g] = IF g \in {} \cup {} THEN "none" ELSE interest[g]
  BY <1>1, <1>2 DEF CloseConns
<1>5. \A d \in Conns : m_sockfd'[d] = IF d \in {} THEN None ELSE m_sockfd[d]
  BY <1>1 DEF CloseConns
<1>6. \A d \in Conns : m_is_closed'[d] = (d \in C \/ m_is_closed[d])
  BY DEF CloseConns
<1>7. \A d \in Conns : m_is_closed'[d] = m_is_closed[d]
  BY <1>6 DEF TypeOK
<1>8. QED
  BY <1>3, <1>4, <1>5, <1>7

Fine == TypeOK /\ Threads /\ Sound

LEMMA OwnerInjective ==
  ASSUME Fine, NEW f \in Fds, NEW g \in Fds, owner[f] = owner[g], owner[f] # None
  PROVE  f = g
<1>1. InUse(f, owner[f]) /\ InUse(g, owner[f])
  BY DEF Fine, Sound, FdOK
<1>2. /\ ~Installing(f) => m_sockfd[owner[f]] = f
      /\ Installing(f) => m_sockfd[owner[f]] = None
  BY <1>1 DEF InUse, MainOf, Installing
<1>3. /\ ~Installing(g) => m_sockfd[owner[f]] = g
      /\ Installing(g) => m_sockfd[owner[f]] = None
  BY <1>1 DEF InUse, MainOf, Installing
<1>4. Installing(f) /\ Installing(g) => f = g
  BY DEF Installing
<1>5. QED
  BY <1>2, <1>3, <1>4, NoneIsNothing

(* A closure of an open connection, or one at a step that process() closing *)
(* the connection does not lead to, has the connection its descriptor has.  *)
LEMMA LiveWorker ==
  ASSUME Fine, NEW w \in Workers, wpc[w] \notin {"idle", "exited"}
  PROVE  /\ job[w].fd \in Fds /\ job[w].conn \in Conns
         /\ wpc[w] \notin Final \cup {"modin"} \/ ~m_is_closed[job[w].conn] =>
              /\ owner[job[w].fd] = job[w].conn
              /\ InUse(job[w].fd, job[w].conn)
              /\ ~m_is_closed[job[w].conn]
              /\ wpc[w] # "close" => m_users[job[w].fd] = job[w].conn
              /\ wpc[w] = "close" => m_users[job[w].fd] = None /\ wconn[w] = job[w].conn
<1>1. job[w].fd \in Fds /\ job[w].conn \in Conns
  BY TaskFields DEF Fine, TypeOK, Threads
<1>2. ASSUME wpc[w] \notin Final \cup {"modin"} \/ ~m_is_closed[job[w].conn]
      PROVE  /\ owner[job[w].fd] = job[w].conn
             /\ InUse(job[w].fd, job[w].conn)
             /\ ~m_is_closed[job[w].conn]
             /\ wpc[w] # "close" => m_users[job[w].fd] = job[w].conn
             /\ wpc[w] = "close" => m_users[job[w].fd] = None /\ wconn[w] = job[w].conn
  <2>1. ~Gone(w) /\ ~Over(w)
    BY <1>2 DEF Gone, Over
  <2>2. FdOK(job[w].fd)
    BY <1>1 DEF Fine, Sound
  <2>3. owner[job[w].fd] # None /\ InUse(job[w].fd, owner[job[w].fd])
    BY <2>1, <2>2 DEF FdOK, Free
  <2>4. WorkersOf(job[w].fd, owner[job[w].fd]) /\ ~m_is_closed[owner[job[w].fd]]
    BY <2>3 DEF InUse
  <2>5. QED
    BY <2>1, <2>3, <2>4 DEF WorkersOf
<1>3. QED
  BY <1>1, <1>2

(* The main thread has nothing to do with a descriptor a worker serves.     *)
LEMMA ServedAlone ==
  ASSUME Fine, NEW f \in Fds, NEW c, InUse(f, c), Served(f)
  PROVE  mfd # f /\ ~Installing(f) /\ ~Armed(f) /\ ~Fetched(f) /\ ~Queued(f) /\ ~Handled(f)
<1>1. ~Armed(f) /\ ~Fetched(f) /\ ~Queued(f) /\ ~Handled(f)
  BY DEF InUse, OneKind
<1>2. mfd # f
  BY <1>1, NoneIsNothing DEF InUse, MainOf, Handled, Fine, Threads
<1>3. QED
  BY <1>1, <1>2 DEF Installing

(* A step of the clients, or of the main thread while it has no connection  *)
(* in its hands.                                                            *)
LEMMA LoopStep ==
  ASSUME Fine,
         UNCHANGED <<owner, interest, m_users, m_tasks, job, wpc, wconn, m_sockfd, m_is_closed>>,
         UNCHANGED <<mpc, mfd, mconn>> \/ (mfd = None /\ mfd' = None),
         \A e \in batch \cup batch' : e.fd \in Fds => (e \in batch <=> e \in batch'),
         \A c \in Conns : cst[c] = "accepted" <=> cst'[c] = "accepted"
  PROVE  Sound'
<1>1. FreshOK'
  BY DEF Fine, Sound, FreshOK
<1>2. ASSUME NEW f \in Fds
      PROVE  FdOK(f)'
  <2>1. TypeOK /\ FdOK(f)
    BY DEF Fine, Sound
  <2>2. mfd = f \/ mfd' = f => mpc' = mpc /\ mfd' = mfd /\ mconn' = mconn
    BY NoneIsNothing
  <2>3. (Queued(f)' <=> Queued(f)) /\ \A c \in Conns : TasksOf(f, c) => TasksOf(f, c)'
    BY DEF Queued, TasksOf
  <2>4. ASSUME NEW c \in Conns, owner[f] = c
        PROVE  cst[c] = "accepted"
    BY <2>1, <2>4, NoneIsNothing DEF FdOK, InUse
  <2>5. \A c \in Conns : owner[f] = c => cst[c] = "accepted" /\ cst'[c] = "accepted"
    BY <2>4
  <2>6. QED
    BY <2>1, <2>2, <2>3, <2>5, Untouched
<1>3. QED
  BY <1>1, <1>2 DEF Sound

(* A closure of an open connection goes on without letting go of it, or     *)
(* after it has.                                                            *)
LEMMA WorkerMoves ==
  ASSUME Fine, NEW w \in Workers, NEW x \in WorkerPC \ {"idle", "exited", "close"},
         wpc[w] \notin {"idle", "exited", "close", "done"}, To(w, x),
         wpc[w] \notin Final \cup {"modin"} \/ ~m_is_closed[job[w].conn],
         wpc[w] \in Final <=> x \in Final,
         UNCHANGED <<owner, interest, m_users, batch, m_tasks, job, wconn, mpc, mfd, mconn,
                     m_sockfd, m_is_closed, cst>>
  PROVE  Sound'
<1> DEFINE f == job[w].fd
           c == job[w].conn
<1>1. /\ f \in Fds /\ c \in Conns /\ owner[f] = c /\ InUse(f, c) /\ m_users[f] = c
  BY LiveWorker
<1>2. wpc'[w] = x /\ \A v \in Workers : v # w => wpc'[v] = wpc[v]
  BY DEF To, Fine, TypeOK
<1> HIDE DEF f, c
<1>3. FreshOK'
  BY DEF Fine, Sound, FreshOK
<1>4. ASSUME NEW g \in Fds, g # f
      PROVE  FdOK(g)'
  <2>1. TypeOK /\ FdOK(g)
    BY DEF Fine, Sound
  <2>2. (Queued(g)' <=> Queued(g)) /\ \A d \in Conns : TasksOf(g, d) => TasksOf(g, d)'
    BY DEF Queued, TasksOf
  <2>3. \A v \in Workers : job[v].fd = g \/ job'[v].fd = g =>
          job'[v] = job[v] /\ wpc'[v] = wpc[v] /\ wconn'[v] = wconn[v]
    BY <1>2, <1>4 DEF f
  <2>4. QED
    BY <2>1, <2>2, <2>3, Untouched
<1>5. InUse(f, c)'
  <2>1. /\ Armed(f)' <=> Armed(f)
        /\ Fetched(f)' <=> Fetched(f)
        /\ Handled(f)' <=> Handled(f)
        /\ Installing(f)' <=> Installing(f)
        /\ Queued(f)' <=> Queued(f)
        /\ TasksOf(f, c)' <=> TasksOf(f, c)
        /\ MainOf(f, c)' <=> MainOf(f, c)
    BY DEF Armed, Fetched, Handled, Installing, Queued, TasksOf, MainOf, Stale, f, c
  <2>2. Served(f)' <=> Served(f)
    BY <1>2 DEF Served, f
  <2>3. OneServer(f)'
    BY <1>1, <1>2 DEF InUse, OneServer, f
  <2>4. OneKind(f)' /\ OneEvent(f)'
    BY <1>1, <2>1, <2>2 DEF InUse, OneKind, OneEvent, f
  <2>5. Closing(f) => Closing(f)'
    BY <1>2 DEF Closing, f
  <2>6. \A v \in Workers : v # w => (Gone(v)' <=> Gone(v))
    BY <1>2 DEF Gone
  <2>7. WorkersOf(f, c)'
    BY <1>1, <1>2, <2>6 DEF InUse, WorkersOf, f, c
  <2>8. QED
    BY <1>1, <2>1, <2>3, <2>4, <2>5, <2>7 DEF InUse, f, c
<1>6. FdOK(f)'
  BY <1>1, <1>5, NoneIsNothing DEF FdOK, f, c
<1>7. QED
  BY <1>3, <1>4, <1>6 DEF Sound, f

(* A closure whose connection process() has closed goes on to its end.      *)
LEMMA WorkerEnds ==
  ASSUME Fine, NEW w \in Workers, NEW x \in Final, wpc[w] \in Final \cup {"modin"}, To(w, x),
         m_is_closed[job[w].conn],
         UNCHANGED <<owner, interest, m_users, batch, m_tasks, job, wconn, mpc, mfd, mconn,
                     m_sockfd, m_is_closed, cst>>
  PROVE  Sound'
<1>1. wpc'[w] = x /\ \A v \in Workers : v # w => wpc'[v] = wpc[v]
  BY DEF To, Fine, TypeOK
<1>2. FreshOK'
  BY DEF Fine, Sound, FreshOK
<1>3. Gone(w)' /\ Over(w)' /\ (\A v \in Workers : v # w => (Gone(v)' <=> Gone(v))
                                                     /\ (Over(v)' <=> Over(v)))
  BY <1>1 DEF Gone, Over
<1>4. ASSUME NEW g \in Fds
      PROVE  FdOK(g)'
  <2>1. TypeOK /\ FdOK(g)
    BY DEF Fine, Sound
  <2>2. /\ Armed(g)' <=> Armed(g)
        /\ Fetched(g)' <=> Fetched(g)
        /\ Queued(g)' <=> Queued(g)
        /\ Handled(g)' <=> Handled(g)
        /\ Installing(g)' <=> Installing(g)
        /\ Stale(g)' <=> Stale(g)
    BY DEF Armed, Fetched, Queued, Handled, Installing, Stale
  <2>3. CASE owner[g] = None
    <3>1. Free(g)
      BY <2>1, <2>3 DEF FdOK
    <3>2. Free(g)'
      BY <1>3, <2>2, <3>1 DEF Free
    <3>3. QED
      BY <2>3, <3>2 DEF FdOK
  <2>4. CASE owner[g] # None
    <3>1. PICK d \in Conns : d = owner[g] /\ InUse(g, d)
      BY <2>1, <2>4 DEF FdOK, TypeOK
    <3>2. job[w].fd = g => wpc[w] \in Final
      BY <3>1 DEF InUse, WorkersOf, Gone
    <3>3. Served(g)' <=> Served(g)
      BY <1>1, <3>2 DEF Served
    <3>4. OneKind(g)' /\ OneEvent(g)' /\ TasksOf(g, d)' /\ MainOf(g, d)'
      BY <2>2, <3>1, <3>3 DEF InUse, OneKind, OneEvent, TasksOf, MainOf
    <3>5. OneServer(g)'
      BY <1>1, <3>1, <3>2 DEF InUse, OneServer
    <3>6. WorkersOf(g, d)'
      BY <1>1, <1>3, <3>1 DEF InUse, WorkersOf
    <3>7. Closing(g) => Closing(g)'
      BY <1>1 DEF Closing, Final
    <3>8. InUse(g, d)'
      BY <2>2, <3>1, <3>4, <3>5, <3>6, <3>7 DEF InUse
    <3>9. QED
      BY <3>1, <3>8, NoneIsNothing DEF FdOK
  <2>5. QED
    BY <2>3, <2>4
<1>5. QED
  BY <1>2, <1>4 DEF Sound

LEMMA EpollWaitSound == Fine /\ EpollWait => Sound'
<1> SUFFICES ASSUME Fine, EpollWait PROVE Sound'
  OBVIOUS
<1>1. /\ mpc = "wait" /\ batch = {} /\ mfd = None /\ batch' = Ready
      /\ UNCHANGED <<owner, m_users, m_tasks, job, wpc, wconn, mfd, mconn, m_sockfd,
                     m_is_closed, cst>>
      /\ mpc' = "tick"
  BY DEF EpollWait, Fine, Threads, client, conn, pool
<1>2. \A f \in Fds :
        interest'[f] = IF \E e \in Ready : e.fd = f THEN "off" ELSE interest[f]
  BY DEF EpollWait
<1>3. ASSUME NEW e \in Ready, e.fd \in Fds
      PROVE  e \in Event /\ e.ev = interest[e.fd] /\ owner[e.fd] # None
  BY <1>3, NoneIsNothing, EventFields DEF Ready
<1>4. FreshOK'
  BY <1>1 DEF Fine, Sound, FreshOK
<1>5. ASSUME NEW f \in Fds
      PROVE  FdOK(f)'
  <2>1. TypeOK /\ FdOK(f)
    BY DEF Fine, Sound
  <2>2. (Queued(f)' <=> Queued(f)) /\ \A c : TasksOf(f, c)' <=> TasksOf(f, c)
    BY <1>1 DEF Queued, TasksOf
  <2>3. CASE ~\E e \in Ready : e.fd = f
    <3>1. interest'[f] = interest[f]
      BY <1>2, <2>3
    <3>2. \A e \in batch \cup batch' : e.fd = f => (e \in batch <=> e \in batch')
      BY <1>1, <2>3
    <3>3. mfd # f /\ mfd' # f
      BY <1>1, NoneIsNothing
    <3>4. QED
      BY <1>1, <2>1, <2>2, <3>1, <3>2, <3>3, Untouched
  <2>4. CASE \E e \in Ready : e.fd = f
    <3>0. PICK c : c = owner[f]
      OBVIOUS
    <3>1. interest'[f] = "off" /\ Fetched(f)' /\ ~Armed(f)'
      BY <1>1, <1>2, <2>4 DEF Fetched, Armed
    <3>2. PICK e \in Ready : e.fd = f
      BY <2>4
    <3>3. e \in Event /\ interest[f] = e.ev /\ c # None
      BY <1>3, <3>0, <3>2
    <3>4. Armed(f) /\ InUse(f, c)
      BY <2>1, <3>0, <3>3, EventFields DEF Armed, FdOK
    <3>5. ~Fetched(f) /\ ~Queued(f) /\ ~Served(f) /\ ~Handled(f) /\ mfd # f
      BY <1>1, <3>4, NoneIsNothing DEF InUse, OneKind
    <3>6. ~Installing(f) /\ m_sockfd[c] = f /\ m_users[f] = c
      BY <1>1, <3>4, <3>5 DEF InUse, Installing, Closing, Served, Final
    <3>7. OneEvent(f)'
      <4> SUFFICES ASSUME NEW d \in Ready, NEW b \in Ready, d.fd = f, b.fd = f
                   PROVE  d = b
        BY <1>1 DEF OneEvent
      <4>1. d \in Event /\ b \in Event /\ d.ev = b.ev
        BY <1>3
      <4>2. QED
        BY <4>1, EventExt
    <3>8. ~Queued(f)' /\ ~Served(f)' /\ ~Handled(f)' /\ ~Installing(f)'
      BY <1>1, <2>2, <3>5, NoneIsNothing DEF Served, Handled, Installing
    <3>9. OneKind(f)'
      BY <3>1, <3>8 DEF OneKind
    <3>10. OneServer(f)' /\ TasksOf(f, c)' /\ MainOf(f, c)'
      BY <1>1, <2>2, <3>4, <3>5 DEF InUse, OneServer, MainOf
    <3>11. WorkersOf(f, c)'
      BY <1>1, <3>4 DEF InUse, WorkersOf, Gone
    <3>12. InUse(f, c)'
      <4>1. /\ interest'[f] # "none" /\ cst'[c] = "accepted" /\ ~m_is_closed'[c]
            /\ m_sockfd'[c] = f /\ m_users'[f] = c
        BY <1>1, <3>1, <3>4, <3>6 DEF InUse
      <4>2. QED
        BY <3>7, <3>8, <3>9, <3>10, <3>11, <4>1, InUseAfter
    <3>13. QED
      BY <1>1, <3>0, <3>3, <3>12 DEF FdOK
  <2>5. QED
    BY <2>3, <2>4
<1>6. QED
  BY <1>4, <1>5 DEF Sound

(* The main thread lets go of nothing when it erases the entry of f: only   *)
(* closures that are over, or none, have its connection.                    *)
LEMMA NotBusy ==
  ASSUME Fine, NEW f \in Fds, NEW w, owner[f] # None, m_users[f] = owner[f],
         ~Installing(f), ~Busy(owner[f], w)
  PROVE  /\ InUse(f, owner[f]) /\ ~Fetched(f) /\ ~Queued(f)
         /\ \A v \in Workers \ {w} : job[v].fd = f => Gone(v)
<1>1. InUse(f, owner[f]) /\ m_sockfd[owner[f]] = f
  BY DEF Fine, Sound, FdOK, InUse
<1>2. ~Fetched(f)
  BY <1>1, NoneIsNothing DEF Busy, Fetched
<1>3. ~Queued(f)
  BY <1>1 DEF InUse, TasksOf, Queued, Busy, QueuedFor
<1>4. \A v \in Workers \ {w} : job[v].fd = f => Gone(v)
  BY <1>1 DEF InUse, WorkersOf, Busy
<1>5. QED
  BY <1>1, <1>2, <1>3, <1>4

LEMMA TickEraseSound == Fine /\ TickErase /\ ~raced' => Sound'
<1> SUFFICES ASSUME Fine, TickErase, ~raced' PROVE Sound'
  OBVIOUS
<1>1. PICK f \in Fds, c \in Conns : f = Head(timers) /\ c = m_users[f] /\ ~m_is_closed[c]
  BY TailOccurs DEF TickErase, Closable, Fine, TypeOK
<1>2. /\ mpc = "tick" /\ mfd = None /\ mpc' = "tickclose" /\ mfd' = f /\ mconn' = c
      /\ UNCHANGED <<owner, interest, batch, m_tasks, job, wpc, wconn, m_sockfd, m_is_closed, cst>>
      /\ m_users' = [m_users EXCEPT ![f] = None] /\ ~Busy(c, None)
  BY <1>1 DEF TickErase, Fine, Threads, kernel, client, conn, pool
<1>3. m_users'[f] = None /\ \A g \in Fds : g # f => m_users'[g] = m_users[g]
  BY <1>2 DEF Fine, TypeOK
<1>4. ~Installing(f) /\ owner[f] = c
  <2>1. ~Installing(f)
    BY <1>2 DEF Installing
  <2>2. FdOK(f)
    BY DEF Fine, Sound
  <2>3. owner[f] # None /\ InUse(f, owner[f])
    BY <1>1, <2>2, NoneIsNothing DEF FdOK, Free, Stale
  <2>4. QED
    BY <1>1, <2>1, <2>3, NoneIsNothing DEF InUse
<1>5. /\ InUse(f, c) /\ ~Fetched(f) /\ ~Queued(f)
      /\ \A v \in Workers : job[v].fd = f => Gone(v)
  BY <1>1, <1>2, <1>4, NotBusy, NoneIsNothing
<1>6. ~Served(f) /\ ~Handled(f) /\ Armed(f)
  BY <1>2, <1>5 DEF Served, Handled, Gone, Final, InUse, OneKind
<1>7. FreshOK'
  BY <1>2 DEF Fine, Sound, FreshOK
<1>8. ASSUME NEW g \in Fds, g # f
      PROVE  FdOK(g)'
  <2>1. TypeOK /\ FdOK(g)
    BY DEF Fine, Sound
  <2>2. (Queued(g)' <=> Queued(g)) /\ \A d \in Conns : TasksOf(g, d) => TasksOf(g, d)'
    BY <1>2 DEF Queued, TasksOf
  <2>3. mfd # g /\ mfd' # g
    BY <1>2, <1>8, NoneIsNothing
  <2>4. QED
    BY <1>2, <1>3, <1>8, <2>1, <2>2, <2>3, Untouched
<1>9. InUse(f, c)'
  <2>1. Armed(f)' /\ ~Fetched(f)' /\ ~Queued(f)' /\ ~Served(f)' /\ ~Handled(f)' /\ ~Installing(f)'
    BY <1>2, <1>5, <1>6 DEF Armed, Fetched, Queued, Served, Handled, Installing
  <2>2. OneKind(f)' /\ OneEvent(f)' /\ OneServer(f)' /\ TasksOf(f, c)'
    BY <1>2, <1>5, <2>1 DEF InUse, OneKind, OneEvent, OneServer, TasksOf
  <2>3. WorkersOf(f, c)'
    BY <1>2, <1>5 DEF WorkersOf, Gone
  <2>4. MainOf(f, c)' /\ Closing(f)'
    BY <1>2, <1>3, <2>1 DEF MainOf, Closing
  <2>5. m_sockfd[c] = f
    BY <1>4, <1>5 DEF InUse
  <2>6. QED
    BY <1>2, <1>3, <1>5, <2>1, <2>2, <2>3, <2>4, <2>5 DEF InUse
<1>10. FdOK(f)'
  BY <1>2, <1>4, <1>9, NoneIsNothing DEF FdOK
<1>11. QED
  BY <1>7, <1>8, <1>10 DEF Sound

(* closeConnection, second half, by the main thread.                        *)
LEMMA MainCloses ==
  ASSUME Fine, mpc \in {"close", "tickclose"}, NEW X, CloseConns({mconn}, {mfd}, X),
         mfd' = None, UNCHANGED <<m_users, batch, m_tasks, job, wpc, wconn, cst>>
  PROVE  Sound'
<1>1. PICK f \in Fds, c \in Conns : f = mfd /\ c = mconn
  BY DEF Fine, TypeOK, Threads
<1>2. owner[f] = c /\ InUse(f, c) /\ m_users[f] = None
  <2>1. FdOK(f)
    BY DEF Fine, Sound
  <2>2. owner[f] # None /\ InUse(f, owner[f])
    BY <1>1, <2>1 DEF FdOK, Free
  <2>3. QED
    BY <1>1, <2>2 DEF InUse, MainOf
<1>3. m_sockfd[c] = f /\ ~m_is_closed[c]
  BY <1>2 DEF InUse, Installing
<1>4. /\ owner'[f] = None /\ interest'[f] = "none"
      /\ \A g \in Fds : g # f => owner'[g] = owner[g] /\ interest'[g] = interest[g]
      /\ m_is_closed'[c]
      /\ \A d \in Conns : d # c => m_sockfd'[d] = m_sockfd[d] /\ m_is_closed'[d] = m_is_closed[d]
  BY <1>1, <1>3, CloseOne DEF Fine
<1>5. ~Fetched(f) /\ ~Queued(f) /\ ~Served(f)
  BY <1>1, <1>2 DEF InUse, OneKind, MainOf, Handled
<1>6. FreshOK'
  BY <1>2, <1>4 DEF Fine, Sound, FreshOK, InUse
<1>7. ASSUME NEW g \in Fds, g # f
      PROVE  FdOK(g)'
  <2>1. TypeOK /\ FdOK(g)
    BY DEF Fine, Sound
  <2>2. (Queued(g)' <=> Queued(g)) /\ \A d \in Conns : TasksOf(g, d) => TasksOf(g, d)'
    BY DEF Queued, TasksOf
  <2>3. owner[g] # c
    BY <1>2, <1>7, OwnerInjective, NoneIsNothing
  <2>4. mfd # g /\ mfd' # g
    BY <1>1, <1>7, NoneIsNothing
  <2>5. \A d \in Conns : m_is_closed[d] => m_is_closed'[d]
    BY <1>4
  <2>6. QED
    BY <1>4, <1>7, <2>1, <2>2, <2>3, <2>4, <2>5, Untouched
<1>8. Free(f)'
  <2>1. ASSUME NEW w \in Workers, job[w].fd = f
        PROVE  Over(w)'
    <3>1. job[w].conn \in Conns
      BY <2>1, JobOf DEF Fine
    <3>2. Gone(w)
      BY <1>2, <1>5, <2>1, NoneIsNothing DEF InUse, WorkersOf, Served, Final
    <3>3. QED
      BY <1>4, <3>1, <3>2 DEF Gone, Over
  <2>2. ~Fetched(f)' /\ ~Queued(f)'
    BY <1>5 DEF Fetched, Queued
  <2>3. QED
    BY <1>2, <1>4, <2>1, <2>2, NoneIsNothing DEF Free, Stale
<1>9. FdOK(f)'
  BY <1>4, <1>8 DEF FdOK
<1>10. QED
  BY <1>6, <1>7, <1>9 DEF Sound

LEMMA AcceptSound == Fine /\ Accept /\ ~raced' => Sound'
<1> SUFFICES ASSUME Fine, Accept, ~raced' PROVE Sound'
  OBVIOUS
<1>1. PICK c \in Conns, f \in Fds :
        /\ cst[c] = "backlog" /\ owner[f] = None
        /\ cst' = [cst EXCEPT ![c] = "accepted"]
        /\ owner' = [owner EXCEPT ![f] = c]
        /\ interest' = [interest EXCEPT ![f] = "in"]
        /\ mfd' = f /\ mconn' = c
  BY DEF Accept
<1>2. /\ mpc = "dispatch" /\ mfd = None /\ mpc' = "accepted" /\ batch' = batch \ {ListenEvent}
      /\ UNCHANGED <<m_users, m_tasks, job, wpc, wconn, m_sockfd, m_is_closed>>
      /\ \A w \in Workers : job[w].fd = f => wpc[w] \in Final
  BY <1>1 DEF Accept, Fine, Threads, conn, pool, Active, Final
<1>3. /\ owner'[f] = c /\ interest'[f] = "in" /\ cst'[c] = "accepted"
      /\ \A g \in Fds : g # f => owner'[g] = owner[g] /\ interest'[g] = interest[g]
      /\ \A d \in Conns : d # c => cst'[d] = cst[d]
  BY <1>1 DEF Fine, TypeOK
<1>4. Free(f)
  BY <1>1 DEF Fine, Sound, FdOK
<1>5. m_sockfd[c] = None /\ ~m_is_closed[c]
  BY <1>1 DEF Fine, Sound, FreshOK
<1>6. FreshOK'
  BY <1>2, <1>3 DEF Fine, Sound, FreshOK
<1>7. ASSUME NEW g \in Fds, g # f
      PROVE  FdOK(g)'
  <2>1. TypeOK /\ FdOK(g)
    BY DEF Fine, Sound
  <2>2. (Queued(g)' <=> Queued(g)) /\ \A d \in Conns : TasksOf(g, d) => TasksOf(g, d)'
    BY <1>2 DEF Queued, TasksOf
  <2>3. owner[g] # c
    BY <1>1, <2>1, NoneIsNothing DEF FdOK, InUse
  <2>4. mfd # g /\ mfd' # g
    BY <1>1, <1>2, <1>7, NoneIsNothing
  <2>5. \A e \in batch \cup batch' : e.fd = g => (e \in batch <=> e \in batch')
    BY <1>2, EventFields, NoneIsNothing
  <2>6. QED
    BY <1>2, <1>3, <1>7, <2>1, <2>2, <2>3, <2>4, <2>5, Untouched
<1>8. InUse(f, c)'
  <2>1. ~Fetched(f)' /\ ~Queued(f)' /\ Armed(f)' /\ Installing(f)' /\ ~Handled(f)'
    BY <1>1, <1>2, <1>3, <1>4 DEF Free, Fetched, Queued, Armed, Installing, Handled
  <2>2. \A w \in Workers : job[w].fd = f => Gone(w)'
    BY <1>2, <1>4 DEF Free, Gone, Over
  <2>3. ~Served(f)' /\ OneServer(f)'
    BY <1>2, <2>2 DEF Served, OneServer, Gone, Final
  <2>4. OneKind(f)' /\ OneEvent(f)' /\ TasksOf(f, c)'
    BY <2>1, <2>3 DEF OneKind, OneEvent, TasksOf, Fetched, Queued
  <2>5. WorkersOf(f, c)'
    BY <1>2, <2>2 DEF WorkersOf
  <2>6. MainOf(f, c)'
    BY <1>1, <1>2, <1>4, <1>5, <2>1 DEF MainOf, Free, Stale
  <2>7. QED
    BY <1>2, <1>3, <1>5, <2>1, <2>3, <2>4, <2>5, <2>6 DEF InUse
<1>9. FdOK(f)'
  BY <1>3, <1>8, NoneIsNothing DEF FdOK
<1>10. QED
  BY <1>6, <1>7, <1>9 DEF Sound

LEMMA InstallSound == Fine /\ InstallConn => Sound'
<1> SUFFICES ASSUME Fine, InstallConn PROVE Sound'
  OBVIOUS
<1>1. PICK f \in Fds, c \in Conns : f = mfd /\ c = mconn
  BY DEF Fine, TypeOK, Threads, InstallConn
<1>2. owner[f] = c /\ InUse(f, c) /\ Stale(f) /\ Armed(f) /\ m_sockfd[c] = None
  <2>1. FdOK(f) /\ mpc = "accepted"
    BY DEF Fine, Sound, InstallConn
  <2>2. owner[f] # None /\ InUse(f, owner[f])
    BY <1>1, <2>1 DEF FdOK, Free
  <2>3. QED
    BY <1>1, <2>1, <2>2 DEF InUse, MainOf
<1>3. /\ mpc = "accepted" /\ mpc' = "installed" /\ mfd' = mfd /\ mconn' = mconn
      /\ UNCHANGED <<batch, m_tasks, job, wpc, wconn, cst>>
      /\ m_users' = [m_users EXCEPT ![f] = c]
  BY <1>1 DEF InstallConn, client, pool
<1>4. PICK C : (\A d \in C : m_is_closed[d]) /\ CloseConns(C, {}, C)
  <2>1. \A d \in {m_users[mfd]} \ {None} : m_is_closed[d]
    BY <1>1, <1>2 DEF Stale
  <2> DEFINE C == {d \in {m_users[mfd]} \ {None} :
                     /\ ~QueuedFor(d)
                     /\ \A v \in Workers : job[v].conn # d /\ wconn[v] # d}
  <2>2. CloseConns(C, {}, C)
    BY DEF InstallConn
  <2>3. \A d \in C : m_is_closed[d]
    BY <2>1
  <2>4. QED
    BY <2>2, <2>3
<1>5. /\ \A g \in Fds : owner'[g] = owner[g] /\ interest'[g] = interest[g]
      /\ \A d \in Conns : m_sockfd'[d] = m_sockfd[d] /\ m_is_closed'[d] = m_is_closed[d]
  BY <1>4, CloseNothing DEF Fine
<1>6. m_users'[f] = c /\ \A g \in Fds : g # f => m_users'[g] = m_users[g]
  BY <1>3 DEF Fine, TypeOK
<1>7. FreshOK'
  BY <1>3, <1>5 DEF Fine, Sound, FreshOK
<1>8. ASSUME NEW g \in Fds, g # f
      PROVE  FdOK(g)'
  <2>1. TypeOK /\ FdOK(g)
    BY DEF Fine, Sound
  <2>2. (Queued(g)' <=> Queued(g)) /\ \A d \in Conns : TasksOf(g, d) => TasksOf(g, d)'
    BY <1>3 DEF Queued, TasksOf
  <2>3. mfd # g /\ mfd' # g
    BY <1>1, <1>3, <1>8
  <2>4. QED
    BY <1>3, <1>5, <1>6, <1>8, <2>1, <2>2, <2>3, Untouched
<1>9. InUse(f, c)'
  <2>1. ~Fetched(f) /\ ~Queued(f) /\ ~Served(f)
    BY <1>2 DEF InUse, OneKind
  <2>2. \A w \in Workers : job[w].fd = f => Gone(w)
    <3>1. m_users[f] # c
      BY <1>2, NoneIsNothing DEF InUse, Stale
    <3>2. \A w \in Workers : job[w].fd = f => wpc[w] # "close"
      BY <2>1 DEF Served, Final
    <3>3. QED
      BY <1>2, <3>1, <3>2 DEF InUse, WorkersOf
  <2>3. /\ ~Fetched(f)' /\ ~Queued(f)' /\ ~Served(f)' /\ ~Handled(f)' /\ Armed(f)'
        /\ Installing(f)'
    BY <1>1, <1>2, <1>3, <1>5, <2>1
       DEF Fetched, Queued, Served, Handled, Armed, Installing
  <2>4. OneKind(f)' /\ OneEvent(f)' /\ OneServer(f)' /\ TasksOf(f, c)'
    BY <1>2, <1>3, <2>3 DEF InUse, OneKind, OneEvent, OneServer, TasksOf
  <2>5. WorkersOf(f, c)'
    <3>1. \A w \in Workers : job[w].fd = f => job[w].conn \in Conns
      BY JobOf DEF Fine
    <3>2. QED
      BY <1>3, <1>5, <2>2, <3>1 DEF WorkersOf, Gone
  <2>6. MainOf(f, c)'
    BY <1>1, <1>2, <1>3, <1>5, <1>6, <2>3 DEF MainOf
  <2>7. interest'[f] # "none" /\ cst'[c] = "accepted" /\ ~m_is_closed'[c]
    BY <1>2, <1>3, <1>5 DEF InUse
  <2>8. QED
    BY <2>3, <2>4, <2>5, <2>6, <2>7 DEF InUse
<1>10. FdOK(f)'
  BY <1>2, <1>5, <1>9, NoneIsNothing DEF FdOK
<1>11. QED
  BY <1>7, <1>8, <1>10 DEF Sound

LEMMA InitConnSound == Fine /\ InitConn => Sound'
<1> SUFFICES ASSUME Fine, InitConn PROVE Sound'
  OBVIOUS
<1>1. PICK f \in Fds, c \in Conns : f = mfd /\ c = mconn
  BY DEF Fine, TypeOK, Threads, InitConn
<1>2. owner[f] = c /\ InUse(f, c) /\ m_users[f] = c /\ Armed(f) /\ ~m_is_closed[c]
  <2>1. FdOK(f) /\ mpc = "installed"
    BY DEF Fine, Sound, InitConn
  <2>2. owner[f] # None /\ InUse(f, owner[f])
    BY <1>1, <2>1 DEF FdOK, Free
  <2>3. QED
    BY <1>1, <2>1, <2>2 DEF InUse, MainOf
<1>3. /\ mpc' = "dispatch" /\ mfd' = None
      /\ UNCHANGED <<owner, interest, m_users, batch, m_tasks, job, wpc, wconn, cst>>
  BY DEF InitConn, client, pool, kernel
<1>4. /\ m_sockfd'[c] = f /\ ~m_is_closed'[c]
      /\ \A d \in Conns : d # c => m_sockfd'[d] = m_sockfd[d] /\ m_is_closed'[d] = m_is_closed[d]
  BY <1>1 DEF InitConn, HttpInit, Fine, TypeOK
<1>5. FreshOK'
  BY <1>2, <1>3, <1>4 DEF Fine, Sound, FreshOK, InUse
<1>6. \A d \in Conns : m_is_closed[d] => m_is_closed'[d]
  BY <1>2, <1>4
<1>7. ASSUME NEW g \in Fds, g # f
      PROVE  FdOK(g)'
  <2>1. TypeOK /\ FdOK(g)
    BY DEF Fine, Sound
  <2>2. (Queued(g)' <=> Queued(g)) /\ \A d \in Conns : TasksOf(g, d) => TasksOf(g, d)'
    BY <1>3 DEF Queued, TasksOf
  <2>3. owner[g] # c
    BY <1>2, <1>7, OwnerInjective, NoneIsNothing
  <2>4. mfd # g /\ mfd' # g
    BY <1>1, <1>3, <1>7, NoneIsNothing
  <2>5. QED
    BY <1>3, <1>4, <1>6, <2>1, <2>2, <2>3, <2>4, Untouched
<1>8. InUse(f, c)'
  <2>1. ~Fetched(f) /\ ~Queued(f) /\ ~Served(f) /\ mfd' # f
    BY <1>2, <1>3, NoneIsNothing DEF InUse, OneKind
  <2>2. /\ ~Fetched(f)' /\ ~Queued(f)' /\ ~Served(f)' /\ ~Handled(f)' /\ Armed(f)'
        /\ ~Installing(f)'
    BY <1>2, <1>3, <2>1 DEF Fetched, Queued, Served, Handled, Armed, Installing
  <2>3. OneKind(f)' /\ OneEvent(f)' /\ OneServer(f)' /\ TasksOf(f, c)'
    BY <1>2, <1>3, <2>2 DEF InUse, OneKind, OneEvent, OneServer, TasksOf
  <2>4. WorkersOf(f, c)'
    <3>1. \A w \in Workers : job[w].fd = f => job[w].conn \in Conns
      BY JobOf DEF Fine
    <3>2. \A w \in Workers : job[w].fd = f /\ Gone(w) => Gone(w)'
      BY <1>3, <1>6, <3>1 DEF Gone
    <3>3. QED
      BY <1>2, <1>3, <3>2 DEF InUse, WorkersOf
  <2>5. MainOf(f, c)'
    BY <2>1 DEF MainOf
  <2>6. interest'[f] # "none" /\ cst'[c] = "accepted" /\ m_users'[f] = c
    BY <1>2, <1>3 DEF InUse
  <2>7. QED
    BY <1>4, <2>2, <2>3, <2>4, <2>5, <2>6, InUseAfter
<1>9. FdOK(f)'
  BY <1>2, <1>3, <1>8, NoneIsNothing DEF FdOK
<1>10. QED
  BY <1>5, <1>7, <1>9 DEF Sound

(* An event that was fetched is for the open connection of its descriptor.  *)
LEMMA FetchedEvent ==
  ASSUME Fine, NEW e \in batch, e \in Event, batch' = batch \ {e}
  PROVE  /\ e.fd \in Fds /\ owner[e.fd] \in Conns /\ Closable(e.fd)
         /\ m_users[e.fd] = owner[e.fd] /\ m_sockfd[owner[e.fd]] = e.fd
         /\ InUse(e.fd, owner[e.fd])
         /\ ~Fetched(e.fd)'
         /\ \A g \in Fds : g # e.fd =>
              \A d \in batch \cup batch' : d.fd = g => (d \in batch <=> d \in batch')
<1>1. e.fd \in Fds /\ Fetched(e.fd)
  BY EventFields DEF Fetched
<1>2. FdOK(e.fd)
  BY <1>1 DEF Fine, Sound
<1>3. owner[e.fd] # None /\ InUse(e.fd, owner[e.fd])
  BY <1>1, <1>2 DEF FdOK, Free
<1>4. owner[e.fd] \in Conns
  BY <1>1, <1>3 DEF Fine, TypeOK
<1>5. m_users[e.fd] = owner[e.fd] /\ m_sockfd[owner[e.fd]] = e.fd /\ ~m_is_closed[owner[e.fd]]
  BY <1>1, <1>3 DEF InUse
<1>6. ~Fetched(e.fd)'
  BY <1>3 DEF InUse, OneEvent, Fetched
<1>7. QED
  BY <1>1, <1>3, <1>4, <1>5, <1>6, NoneIsNothing DEF Closable

LEMMA DispatchIgnoredSound == Fine /\ DispatchIgnored => Sound'
<1> SUFFICES ASSUME Fine, DispatchIgnored PROVE FALSE
  OBVIOUS
<1>1. PICK e \in batch : e \in Event /\ ~Closable(e.fd) /\ batch' = batch \ {e}
  BY DEF DispatchIgnored
<1>2. QED
  BY <1>1, FetchedEvent

LEMMA DispatchTaskSound == Fine /\ DispatchTask => Sound'
<1> SUFFICES ASSUME Fine, DispatchTask PROVE Sound'
  OBVIOUS
<1>1. PICK e \in batch :
        /\ e \in Event /\ batch' = batch \ {e}
        /\ m_tasks' = Append(m_tasks, [kind |-> IF e.ev = "out" THEN "write" ELSE "read",
                                       fd |-> e.fd, conn |-> m_users[e.fd]])
  BY DEF DispatchTask
<1>2. PICK f \in Fds, c \in Conns : f = e.fd /\ c = owner[f]
  BY <1>1, FetchedEvent
<1>3. /\ m_users[f] = c /\ m_sockfd[c] = f /\ InUse(f, c) /\ ~Fetched(f)'
      /\ \A g \in Fds : g # f =>
           \A d \in batch \cup batch' : d.fd = g => (d \in batch <=> d \in batch')
  BY <1>1, <1>2, FetchedEvent
<1>4. /\ mpc = "dispatch" /\ mfd = None
      /\ UNCHANGED <<owner, interest, m_users, job, wpc, wconn, mpc, mfd, mconn, m_sockfd,
                     m_is_closed, cst>>
  BY DEF DispatchTask, Fine, Threads, kernel, client, conn
<1>5. PICK t \in Task : t.fd = f /\ t.conn = c /\ m_tasks' = Append(m_tasks, t)
  <2>1. (IF e.ev = "out" THEN "write" ELSE "read") \in {"read", "process", "write"}
    OBVIOUS
  <2>2. QED
    BY <1>1, <1>2, <1>3, <2>1, NewTask
<1>6. Fetched(f)
  BY <1>1, <1>2 DEF Fetched
<1>7. ~Armed(f) /\ ~Queued(f) /\ ~Served(f) /\ ~Handled(f)
  BY <1>3, <1>6 DEF InUse, OneKind
<1>8. /\ Queued(f)' /\ TasksOf(f, c)'
      /\ \A g \in Fds : g # f => /\ Queued(g)' <=> Queued(g)
                                 /\ \A d \in Conns : TasksOf(g, d) => TasksOf(g, d)'
  BY <1>5, <1>7, TaskAppended DEF Fine
<1>9. FreshOK'
  BY <1>4 DEF Fine, Sound, FreshOK
<1>10. ASSUME NEW g \in Fds, g # f
       PROVE  FdOK(g)'
  <2>1. TypeOK /\ FdOK(g)
    BY DEF Fine, Sound
  <2>2. QED
    BY <1>3, <1>4, <1>8, <1>10, <2>1, NoneIsNothing, Untouched
<1>11. InUse(f, c)'
  <2>1. ~Armed(f)' /\ ~Served(f)' /\ ~Handled(f)' /\ ~Installing(f)'
    BY <1>4, <1>7, NoneIsNothing DEF Armed, Served, Handled, Installing
  <2>2. OneKind(f)' /\ OneEvent(f)' /\ OneServer(f)'
    BY <1>3, <1>4, <1>8, <2>1 DEF InUse, OneKind, OneEvent, OneServer, Fetched
  <2>3. WorkersOf(f, c)' /\ MainOf(f, c)'
    BY <1>3, <1>4, NoneIsNothing DEF InUse, WorkersOf, MainOf, Gone
  <2>4. interest'[f] # "none" /\ cst'[c] = "accepted" /\ ~m_is_closed'[c]
    BY <1>3, <1>4 DEF InUse
  <2>5. QED
    BY <1>3, <1>4, <1>8, <2>1, <2>2, <2>3, <2>4, InUseAfter
<1>12. FdOK(f)'
  BY <1>2, <1>4, <1>11, NoneIsNothing DEF FdOK
<1>13. QED
  BY <1>9, <1>10, <1>12 DEF Sound

LEMMA DispatchReadSound == Fine /\ DispatchRead => Sound'
<1> SUFFICES ASSUME Fine, DispatchRead PROVE Sound'
  OBVIOUS
<1>1. PICK e \in batch : e \in Event /\ batch' = batch \ {e} /\ mfd' = e.fd /\ mconn' = m_users[e.fd]
  BY DEF DispatchRead
<1>2. PICK f \in Fds, c \in Conns : f = e.fd /\ c = owner[f]
  BY <1>1, FetchedEvent
<1>3. /\ m_users[f] = c /\ m_sockfd[c] = f /\ InUse(f, c) /\ ~Fetched(f)'
      /\ \A g \in Fds : g # f =>
           \A d \in batch \cup batch' : d.fd = g => (d \in batch <=> d \in batch')
  BY <1>1, <1>2, FetchedEvent
<1>4. /\ mfd = None /\ mpc' = "read" /\ mfd' = f /\ mconn' = c
      /\ UNCHANGED <<owner, interest, m_users, m_tasks, job, wpc, wconn, m_sockfd,
                     m_is_closed, cst>>
  BY <1>1, <1>2, <1>3 DEF DispatchRead, Fine, Threads, kernel, client, conn, pool
<1>5. Fetched(f)
  BY <1>1, <1>2 DEF Fetched
<1>6. ~Armed(f) /\ ~Queued(f) /\ ~Served(f) /\ ~Handled(f)
  BY <1>3, <1>5 DEF InUse, OneKind
<1>7. FreshOK'
  BY <1>4 DEF Fine, Sound, FreshOK
<1>8. ASSUME NEW g \in Fds, g # f
      PROVE  FdOK(g)'
  <2>1. TypeOK /\ FdOK(g)
    BY DEF Fine, Sound
  <2>2. (Queued(g)' <=> Queued(g)) /\ \A d \in Conns : TasksOf(g, d) => TasksOf(g, d)'
    BY <1>4 DEF Queued, TasksOf
  <2>3. mfd # g /\ mfd' # g
    BY <1>4, <1>8, NoneIsNothing
  <2>4. QED
    BY <1>3, <1>4, <1>8, <2>1, <2>2, <2>3, Untouched
<1>9. InUse(f, c)'
  <2>1. ~Armed(f)' /\ ~Queued(f)' /\ ~Served(f)' /\ Handled(f)' /\ ~Installing(f)'
    BY <1>4, <1>6 DEF Armed, Queued, Served, Handled, Installing
  <2>2. OneKind(f)' /\ OneEvent(f)' /\ OneServer(f)'
    BY <1>3, <1>4, <2>1 DEF InUse, OneKind, OneEvent, OneServer, Fetched
  <2>3. TasksOf(f, c)' /\ WorkersOf(f, c)' /\ MainOf(f, c)'
    BY <1>3, <1>4 DEF InUse, TasksOf, WorkersOf, MainOf, Gone
  <2>4. interest'[f] # "none" /\ cst'[c] = "accepted" /\ ~m_is_closed'[c]
    BY <1>3, <1>4 DEF InUse
  <2>5. QED
    BY <1>3, <1>4, <2>1, <2>2, <2>3, <2>4, InUseAfter
<1>10. FdOK(f)'
  BY <1>2, <1>4, <1>9, NoneIsNothing DEF FdOK
<1>11. QED
  BY <1>7, <1>8, <1>10 DEF Sound

(* What the main thread has in its hands in handleReadEvent.                *)
LEMMA MainHandles ==
  ASSUME Fine, mpc \in {"read", "erase"}
  PROVE  /\ mfd \in Fds /\ owner[mfd] \in Conns /\ InUse(mfd, owner[mfd])
         /\ m_users[mfd] = owner[mfd] /\ m_sockfd[owner[mfd]] = mfd
         /\ ~m_is_closed[owner[mfd]] /\ Closable(mfd)
         /\ mpc = "read" => mconn = owner[mfd]
         /\ ~Armed(mfd) /\ ~Fetched(mfd) /\ ~Queued(mfd) /\ ~Served(mfd)
<1>1. mfd \in Fds
  BY DEF Fine, TypeOK, Threads
<1>2. FdOK(mfd)
  BY <1>1 DEF Fine, Sound
<1>3. owner[mfd] # None /\ InUse(mfd, owner[mfd])
  BY <1>1, <1>2 DEF FdOK, Free
<1>4. owner[mfd] \in Conns
  BY <1>1, <1>3 DEF Fine, TypeOK
<1>5. m_users[mfd] = owner[mfd] /\ (mpc = "read" => mconn = owner[mfd])
  BY <1>3 DEF InUse, MainOf
<1>6. m_sockfd[owner[mfd]] = mfd /\ ~m_is_closed[owner[mfd]]
  BY <1>3 DEF InUse, Installing
<1>7. ~Armed(mfd) /\ ~Fetched(mfd) /\ ~Queued(mfd) /\ ~Served(mfd)
  BY <1>3 DEF InUse, OneKind, Handled
<1>8. QED
  BY <1>1, <1>3, <1>4, <1>5, <1>6, <1>7, NoneIsNothing DEF Closable

LEMMA MainReadSound == Fine /\ MainRead => Sound'
<1> SUFFICES ASSUME Fine, MainRead PROVE Sound'
  OBVIOUS
<1>1. PICK f \in Fds, c \in Conns : f = mfd /\ c = owner[f]
  BY MainHandles DEF MainRead
<1>2. /\ InUse(f, c) /\ m_users[f] = c /\ m_sockfd[c] = f /\ mconn = c /\ mpc = "read"
      /\ ~Armed(f) /\ ~Fetched(f) /\ ~Queued(f) /\ ~Served(f)
  BY <1>1, MainHandles DEF MainRead
<1>3. UNCHANGED <<owner, interest, m_users, batch, job, wpc, wconn, m_sockfd, m_is_closed, cst>>
  BY DEF MainRead, kernel
<1>4. FreshOK'
  BY <1>3 DEF Fine, Sound, FreshOK
<1>5. mfd' \in {f, None}
  BY <1>1 DEF MainRead
<1>6. ASSUME /\ TasksOf(f, c)' /\ OneKind(f)' /\ MainOf(f, c)' /\ ~Installing(f)'
             /\ \A g \in Fds : g # f => /\ Queued(g)' <=> Queued(g)
                                        /\ \A d \in Conns : TasksOf(g, d) => TasksOf(g, d)'
      PROVE  Sound'
  <2>1. ASSUME NEW g \in Fds, g # f
        PROVE  FdOK(g)'
    <3>1. TypeOK /\ FdOK(g)
      BY DEF Fine, Sound
    <3>2. mfd # g /\ mfd' # g
      BY <1>1, <1>5, <2>1, NoneIsNothing
    <3>3. QED
      BY <1>3, <1>6, <2>1, <3>1, <3>2, Untouched
  <2>2. OneEvent(f)' /\ OneServer(f)' /\ WorkersOf(f, c)'
    BY <1>2, <1>3 DEF InUse, OneEvent, OneServer, WorkersOf, Gone
  <2>3. interest'[f] # "none" /\ cst'[c] = "accepted" /\ ~m_is_closed'[c]
    BY <1>2, <1>3 DEF InUse
  <2>4. InUse(f, c)'
    BY <1>2, <1>3, <1>6, <2>2, <2>3, InUseAfter
  <2>5. FdOK(f)'
    BY <1>1, <1>3, <2>4, NoneIsNothing DEF FdOK
  <2>6. QED
    BY <1>4, <2>1, <2>5 DEF Sound
<1>7. CASE ReadResult(mconn)
  <2>1. mpc' = "dispatch" /\ mfd' = None
    BY <1>7 DEF MainRead
  <2>2. PICK t \in Task : t.fd = f /\ t.conn = c /\ m_tasks' = Append(m_tasks, t)
    BY <1>1, <1>2, <1>7, NewTask DEF MainRead
  <2>3. /\ Queued(f)' /\ TasksOf(f, c)'
        /\ \A g \in Fds : g # f => /\ Queued(g)' <=> Queued(g)
                                   /\ \A d \in Conns : TasksOf(g, d) => TasksOf(g, d)'
    BY <1>2, <2>2, TaskAppended DEF Fine
  <2>4. ~Armed(f)' /\ ~Fetched(f)' /\ ~Served(f)' /\ ~Handled(f)' /\ ~Installing(f)'
    BY <1>2, <1>3, <2>1 DEF Armed, Fetched, Served, Handled, Installing
  <2>5. OneKind(f)' /\ MainOf(f, c)'
    BY <2>1, <2>3, <2>4, NoneIsNothing DEF OneKind, MainOf
  <2>6. QED
    BY <1>6, <2>3, <2>4, <2>5
<1>8. CASE ~ReadResult(mconn)
  <2>1. mpc' = "erase" /\ mfd' = f /\ m_tasks' = m_tasks
    BY <1>1, <1>8 DEF MainRead
  <2>2. /\ TasksOf(f, c)' /\ ~Queued(f)'
        /\ \A g \in Fds : /\ Queued(g)' <=> Queued(g)
                          /\ \A d \in Conns : TasksOf(g, d) => TasksOf(g, d)'
    BY <1>2, <2>1 DEF TasksOf, Queued, InUse
  <2>3. ~Armed(f)' /\ ~Fetched(f)' /\ ~Served(f)' /\ Handled(f)' /\ ~Installing(f)'
    BY <1>2, <1>3, <2>1 DEF Armed, Fetched, Served, Handled, Installing
  <2>4. OneKind(f)' /\ MainOf(f, c)'
    BY <1>2, <1>3, <2>1, <2>2, <2>3 DEF OneKind, MainOf
  <2>5. QED
    BY <1>6, <2>2, <2>3, <2>4
<1>9. QED
  BY <1>7, <1>8

LEMMA MainEraseSound == Fine /\ MainErase /\ ~raced' => Sound'
<1> SUFFICES ASSUME Fine, MainErase, ~raced' PROVE Sound'
  OBVIOUS
<1>1. PICK f \in Fds, c \in Conns : f = mfd /\ c = owner[f]
  BY MainHandles DEF MainErase
<1>2. /\ InUse(f, c) /\ m_users[f] = c /\ m_sockfd[c] = f /\ mpc = "erase" /\ Closable(mfd)
      /\ ~Armed(f) /\ ~Fetched(f) /\ ~Queued(f) /\ ~Served(f)
  BY <1>1, MainHandles DEF MainErase
<1>3. /\ UNCHANGED <<owner, interest, batch, m_tasks, job, wpc, wconn, m_sockfd, m_is_closed, cst>>
      /\ m_users' = [m_users EXCEPT ![f] = None] /\ mpc' = "close" /\ mfd' = f /\ mconn' = c
      /\ ~Busy(c, None)
  BY <1>1, <1>2 DEF MainErase, kernel, client, conn, pool
<1>4. m_users'[f] = None /\ \A g \in Fds : g # f => m_users'[g] = m_users[g]
  BY <1>3 DEF Fine, TypeOK
<1>5. \A v \in Workers : job[v].fd = f => Gone(v)
  <2>1. ~Installing(f)
    BY <1>2 DEF Installing
  <2>2. QED
    BY <1>1, <1>2, <1>3, <2>1, NotBusy, NoneIsNothing
<1>6. FreshOK'
  BY <1>3 DEF Fine, Sound, FreshOK
<1>7. ASSUME NEW g \in Fds, g # f
      PROVE  FdOK(g)'
  <2>1. TypeOK /\ FdOK(g)
    BY DEF Fine, Sound
  <2>2. (Queued(g)' <=> Queued(g)) /\ \A d \in Conns : TasksOf(g, d) => TasksOf(g, d)'
    BY <1>3 DEF Queued, TasksOf
  <2>3. mfd # g /\ mfd' # g
    BY <1>1, <1>3, <1>7
  <2>4. QED
    BY <1>3, <1>4, <1>7, <2>1, <2>2, <2>3, Untouched
<1>8. InUse(f, c)'
  <2>1. ~Armed(f)' /\ ~Fetched(f)' /\ ~Queued(f)' /\ ~Served(f)' /\ Handled(f)' /\ ~Installing(f)'
    BY <1>2, <1>3 DEF Armed, Fetched, Queued, Served, Handled, Installing
  <2>2. OneKind(f)' /\ OneEvent(f)' /\ OneServer(f)' /\ TasksOf(f, c)'
    BY <1>2, <1>3, <2>1 DEF InUse, OneKind, OneEvent, OneServer, TasksOf
  <2>3. WorkersOf(f, c)'
    BY <1>3, <1>5 DEF WorkersOf, Gone
  <2>4. MainOf(f, c)' /\ Closing(f)'
    BY <1>3, <1>4 DEF MainOf, Closing
  <2>5. interest'[f] # "none" /\ cst'[c] = "accepted" /\ ~m_is_closed'[c]
    BY <1>2, <1>3 DEF InUse
  <2>6. QED
    BY <1>2, <1>3, <1>4, <2>1, <2>2, <2>3, <2>4, <2>5, InUseAfter
<1>9. FdOK(f)'
  BY <1>1, <1>3, <1>8, NoneIsNothing DEF FdOK
<1>10. QED
  BY <1>6, <1>7, <1>9 DEF Sound

(* shutdown() closes the descriptors that have an entry in m_users, and no  *)
(* closure is left for any of them.                                         *)
LEMMA ShutdownSound == Fine /\ Shutdown /\ ~raced' => Sound'
<1> SUFFICES ASSUME Fine, Shutdown, ~raced' PROVE Sound'
  OBVIOUS
<1> DEFINE C == {c \in Conns : \E f \in Fds : m_users[f] = c}
           O == {c \in C : ~m_is_closed[c]}
           K == {m_sockfd[c] : c \in O} \ {None}
<1>1. /\ mpc = "dispatch" /\ mfd = None /\ mfd' = None /\ batch' \subseteq batch
      /\ \A e \in batch : e.fd \in Fds => e \in batch'
      /\ UNCHANGED <<m_tasks, job, wpc, wconn, cst>>
      /\ m_users' = [f \in Fds |-> None]
      /\ CloseConns(C, {}, {}) /\ \A c \in C : ~Busy(c, None)
  BY EventFields, NoneIsNothing DEF Shutdown, Fine, Threads
<1>2. ASSUME NEW f \in Fds, Closable(f)
      PROVE  /\ m_users[f] \in C /\ owner[f] = m_users[f] /\ m_sockfd[m_users[f]] = f
             /\ ~m_is_closed[m_users[f]] /\ cst[m_users[f]] = "accepted"
  <2>1. FdOK(f) /\ m_users[f] \in Conns
    BY <1>2 DEF Fine, Sound, TypeOK, Closable
  <2>2. owner[f] # None /\ InUse(f, owner[f])
    BY <1>2, <2>1 DEF FdOK, Free, Stale, Closable
  <2>3. ~Installing(f)
    BY <1>1 DEF Installing
  <2>4. QED
    BY <1>2, <2>1, <2>2, <2>3 DEF InUse, Closable
<1>3. ASSUME NEW c \in O
      PROVE  /\ cst[c] = "accepted"
             /\ m_sockfd[c] \in Fds /\ m_users[m_sockfd[c]] = c /\ Closable(m_sockfd[c])
  <2>1. PICK f \in Fds : m_users[f] = c /\ Closable(f)
    BY <1>3, NoneIsNothing DEF Closable
  <2>2. QED
    BY <1>2, <2>1
<1>4. \A f \in Fds : f \in K <=> Closable(f)
  <2>1. ASSUME NEW f \in Fds, f \in K
        PROVE  Closable(f)
    <3>1. PICK c \in O : f = m_sockfd[c]
      BY <2>1
    <3>2. QED
      BY <1>3, <3>1
  <2>2. ASSUME NEW f \in Fds, Closable(f)
        PROVE  f \in K
    <3>1. m_users[f] \in O
      BY <1>2, <2>2 DEF Closable
    <3>2. QED
      BY <1>2, <2>2, <3>1, NoneIsNothing
  <2>3. QED
    BY <2>1, <2>2
<1>5. /\ \A f \in Fds : owner'[f] = IF f \in K THEN None ELSE owner[f]
      /\ \A f \in Fds : interest'[f] = IF f \in K THEN "none" ELSE interest[f]
      /\ \A c \in Conns : m_sockfd'[c] = IF c \in O THEN None ELSE m_sockfd[c]
      /\ \A c \in Conns : m_is_closed'[c] = (c \in C \/ m_is_closed[c])
  <2>1. {c \in C : ~m_is_closed[c]} = O
    OBVIOUS
  <2>2. CloseConns(C, {}, {})
    BY <1>1
  <2>3. K \cup {} = K
    OBVIOUS
  <2> HIDE DEF C, O
  <2>4. \A f \in Fds : owner'[f] = IF f \in K THEN None ELSE owner[f]
    BY <2>1, <2>2 DEF CloseConns
  <2>5. \A f \in Fds : interest'[f] = IF f \in K \cup {} THEN "none" ELSE interest[f]
    BY <2>1, <2>2 DEF CloseConns
  <2>6. \A c \in Conns : m_sockfd'[c] = IF c \in O THEN None ELSE m_sockfd[c]
    BY <2>1, <2>2 DEF CloseConns
  <2>7. \A c \in Conns : m_is_closed'[c] = (c \in C \/ m_is_closed[c])
    BY <2>2 DEF CloseConns
  <2>8. QED
    BY <2>3, <2>4, <2>5, <2>6, <2>7
<1> HIDE DEF K
<1>6. ASSUME NEW c \in Conns, c \notin C  PROVE  m_is_closed'[c] = m_is_closed[c]
  <2> HIDE DEF C
  <2>1. PICK b \in BOOLEAN : b = m_is_closed[c]
    BY DEF Fine, TypeOK
  <2>2. m_is_closed'[c] = (c \in C \/ b)
    BY <1>5, <2>1
  <2>3. QED
    BY <1>6, <2>1, <2>2
<1>7. FreshOK'
  <2>1. ASSUME NEW c \in Conns, cst'[c] # "accepted"
        PROVE  m_sockfd'[c] = None /\ ~m_is_closed'[c]
    <3>1. cst[c] # "accepted" /\ c \notin O
      BY <1>1, <1>3, <2>1
    <3>2. m_sockfd[c] = None /\ ~m_is_closed[c]
      BY <3>1 DEF Fine, Sound, FreshOK
    <3>3. c \notin C
      BY <3>1, <3>2
    <3>4. QED
      BY <1>5, <1>6, <3>1, <3>2, <3>3
  <2>2. QED
    BY <2>1 DEF FreshOK
<1>8. ASSUME NEW f \in Fds, Closable(f)
      PROVE  FdOK(f)'
  <2>1. owner'[f] = None /\ interest'[f] = "none" /\ m_users'[f] = None /\ mfd' # f
    BY <1>1, <1>4, <1>5, <1>8, NoneIsNothing
  <2>2. /\ ~Fetched(f) /\ ~Queued(f)
        /\ \A v \in Workers : job[v].fd = f => Gone(v)
    <3>1. owner[f] # None /\ m_users[f] = owner[f] /\ ~Busy(owner[f], None)
      BY <1>1, <1>2, <1>8 DEF Closable
    <3>2. ~Installing(f)
      BY <1>1 DEF Installing
    <3>3. QED
      BY <3>1, <3>2, NotBusy, NoneIsNothing
  <2>3. ~Fetched(f)' /\ ~Queued(f)'
    BY <1>1, <2>2 DEF Fetched, Queued
  <2>4. ASSUME NEW v \in Workers, job'[v].fd = f
        PROVE  Over(v)'
    <3>1. Gone(v) /\ job[v].conn \in Conns
      BY <1>1, <2>2, <2>4, JobOf DEF Fine
    <3>2. QED
      BY <1>1, <1>5, <3>1 DEF Gone, Over
  <2>5. QED
    BY <2>1, <2>3, <2>4 DEF FdOK, Free, Stale
<1>11. ASSUME NEW f \in Fds, ~Closable(f), m_users[f] # None
       PROVE  FdOK(f)'
  <2>1. FdOK(f) /\ ~Installing(f) /\ m_is_closed[m_users[f]]
    BY <1>1, <1>11 DEF Fine, Sound, Installing, Closable
  <2>2. owner[f] = None /\ Free(f)
    BY <1>11, <2>1 DEF FdOK, InUse
  <2>3. owner'[f] = None /\ interest'[f] = "none" /\ m_users'[f] = None /\ mfd' # f
    BY <1>1, <1>4, <1>5, <1>11, <2>2, NoneIsNothing DEF Free
  <2>4. ~Fetched(f)' /\ ~Queued(f)'
    BY <1>1, <2>2 DEF Free, Fetched, Queued
  <2>5. ASSUME NEW v \in Workers, job'[v].fd = f
        PROVE  Over(v)'
    <3>1. Over(v) /\ job[v].conn \in Conns
      BY <1>1, <2>2, <2>5, JobOf DEF Fine, Free
    <3>2. QED
      BY <1>1, <1>5, <3>1 DEF Over
  <2>6. QED
    BY <2>3, <2>4, <2>5 DEF FdOK, Free, Stale
<1>9. ASSUME NEW f \in Fds, m_users[f] = None
      PROVE  FdOK(f)'
  <2>1. TypeOK /\ FdOK(f)
    BY DEF Fine, Sound
  <2>2. owner'[f] = owner[f] /\ interest'[f] = interest[f] /\ m_users'[f] = m_users[f]
    BY <1>1, <1>4, <1>5, <1>9 DEF Closable
  <2>3. (Queued(f)' <=> Queued(f)) /\ \A d \in Conns : TasksOf(f, d) => TasksOf(f, d)'
    BY <1>1 DEF Queued, TasksOf
  <2>4. ASSUME NEW c \in Conns, owner[f] = c
        PROVE  c \notin C
    <3> SUFFICES ASSUME c \in C PROVE FALSE
      OBVIOUS
    <3>1. PICK g \in Fds : m_users[g] = c
      OBVIOUS
    <3>2. c # None /\ ~m_is_closed[c]
      BY <2>1, <2>4, NoneIsNothing DEF FdOK, InUse
    <3>3. owner[g] = c
      BY <1>2, <3>1, <3>2 DEF Closable
    <3>4. g = f
      BY <2>4, <3>2, <3>3, OwnerInjective
    <3>5. QED
      BY <1>9, <3>1, <3>2, <3>4
  <2>5. \A c \in Conns : owner[f] = c =>
          m_sockfd'[c] = m_sockfd[c] /\ m_is_closed'[c] = m_is_closed[c] /\ cst'[c] = cst[c]
    BY <1>1, <1>5, <1>6, <2>4
  <2>6. \A c \in Conns : m_is_closed[c] => m_is_closed'[c]
    BY <1>5
  <2>7. \A e \in batch \cup batch' : e.fd = f => (e \in batch <=> e \in batch')
    BY <1>1
  <2>8. mfd # f /\ mfd' # f
    BY <1>1, NoneIsNothing
  <2>9. \A w \in Workers : job'[w] = job[w] /\ wpc'[w] = wpc[w] /\ wconn'[w] = wconn[w]
    BY <1>1
  <2> HIDE DEF C
  <2>10. QED
    BY <2>1, <2>2, <2>3, <2>5, <2>6, <2>7, <2>8, <2>9, Untouched
<1>10. QED
  BY <1>7, <1>8, <1>9, <1>11 DEF Sound

LEMMA WorkerTakeSound == ASSUME Fine, NEW w \in Workers, WorkerTake(w) PROVE Sound'
<1>1. PICK t : t = Head(m_tasks)
  OBVIOUS
<1>2. /\ wpc[w] = "idle" /\ m_tasks # <<>> /\ m_tasks' = Tail(m_tasks)
      /\ job' = [job EXCEPT ![w] = t] /\ wpc' = [wpc EXCEPT ![w] = t.kind]
      /\ UNCHANGED <<owner, interest, m_users, batch, wconn, mpc, mfd, mconn, m_sockfd,
                     m_is_closed, cst>>
  BY <1>1 DEF WorkerTake, To, kernel, client, conn, loop
<1>3. /\ t \in Task /\ Queued(t.fd)
      /\ \A c : TasksOf(t.fd, c) => t.conn = c /\ ~Queued(t.fd)' /\ TasksOf(t.fd, c)'
      /\ \A f \in Fds : f # t.fd => /\ Queued(f)' <=> Queued(f)
                                    /\ \A c : TasksOf(f, c) => TasksOf(f, c)'
  BY <1>1, <1>2, TaskTaken DEF Fine
<1>4. PICK f \in Fds, c \in Conns :
        /\ f = t.fd /\ c = owner[f] /\ InUse(f, c) /\ t.conn = c /\ m_users[f] = c
        /\ ~Queued(f)' /\ TasksOf(f, c)' /\ ~Installing(f)
  <2>1. t.fd \in Fds
    BY <1>3, TaskFields
  <2>2. FdOK(t.fd)
    BY <2>1 DEF Fine, Sound
  <2>3. owner[t.fd] # None /\ InUse(t.fd, owner[t.fd])
    BY <1>3, <2>2 DEF FdOK, Free
  <2>4. owner[t.fd] \in Conns
    BY <2>1, <2>3 DEF Fine, TypeOK
  <2>5. TasksOf(t.fd, owner[t.fd]) /\ m_users[t.fd] = owner[t.fd] /\ ~Installing(t.fd)
    BY <1>3, <2>3 DEF InUse
  <2>6. QED
    BY <1>3, <2>1, <2>3, <2>4, <2>5
<1>5. /\ job'[w] = t /\ wpc'[w] = t.kind /\ t.kind \in {"read", "process", "write"}
      /\ \A v \in Workers : v # w => job'[v] = job[v] /\ wpc'[v] = wpc[v]
  BY <1>2, <1>3, TaskFields DEF Fine, TypeOK
<1>6. job[w].fd = None
  BY <1>2, TaskFields DEF Fine, Threads
<1>7. ~Armed(f) /\ ~Fetched(f) /\ ~Served(f) /\ ~Handled(f)
  BY <1>3, <1>4 DEF InUse, OneKind
<1>8. FreshOK'
  BY <1>2 DEF Fine, Sound, FreshOK
<1>9. ASSUME NEW g \in Fds, g # f
      PROVE  FdOK(g)'
  <2>1. TypeOK /\ FdOK(g)
    BY DEF Fine, Sound
  <2>2. \A v \in Workers : job[v].fd = g \/ job'[v].fd = g =>
          job'[v] = job[v] /\ wpc'[v] = wpc[v] /\ wconn'[v] = wconn[v]
    BY <1>2, <1>4, <1>5, <1>6, <1>9, NoneIsNothing
  <2>3. QED
    BY <1>2, <1>3, <1>4, <1>9, <2>1, <2>2, Untouched
<1>10. InUse(f, c)'
  <2>1. ~Armed(f)' /\ ~Fetched(f)' /\ ~Handled(f)' /\ ~Installing(f)'
    BY <1>2, <1>4, <1>7 DEF Armed, Fetched, Handled, Installing
  <2>2. Served(f)' /\ OneServer(f)'
    BY <1>4, <1>5, <1>7 DEF Served, OneServer, Final
  <2>3. OneKind(f)' /\ OneEvent(f)'
    BY <1>4, <2>1, <2>2 DEF OneKind, OneEvent, Fetched
  <2>4. WorkersOf(f, c)'
    BY <1>2, <1>4, <1>5 DEF InUse, WorkersOf, Gone
  <2>5. MainOf(f, c)'
    BY <1>2, <1>4 DEF InUse, MainOf, Armed, Stale
  <2>6. interest'[f] # "none" /\ cst'[c] = "accepted" /\ ~m_is_closed'[c] /\ m_sockfd'[c] = f
    BY <1>2, <1>4 DEF InUse
  <2>7. QED
    BY <1>2, <1>4, <2>1, <2>2, <2>3, <2>4, <2>5, <2>6, InUseAfter
<1>11. FdOK(f)'
  BY <1>2, <1>4, <1>10, NoneIsNothing DEF FdOK
<1>12. QED
  BY <1>8, <1>9, <1>11 DEF Sound

LEMMA WorkerExitSound == ASSUME Fine, NEW w \in Workers, WorkerExit(w) PROVE Sound'
<1>1. /\ UNCHANGED <<owner, interest, m_users, batch, m_tasks, job, wconn, mpc, mfd, mconn,
                     m_sockfd, m_is_closed, cst>>
      /\ wpc' = [wpc EXCEPT ![w] = "exited"]
  BY DEF WorkerExit, To, kernel, client, conn, loop
<1>2. job[w].fd = None
  BY TaskFields DEF WorkerExit, Fine, Threads
<1>3. \A v \in Workers : v # w => wpc'[v] = wpc[v]
  BY <1>1 DEF Fine, TypeOK
<1>4. FreshOK'
  BY <1>1 DEF Fine, Sound, FreshOK
<1>5. ASSUME NEW f \in Fds
      PROVE  FdOK(f)'
  <2>1. TypeOK /\ FdOK(f)
    BY DEF Fine, Sound
  <2>2. (Queued(f)' <=> Queued(f)) /\ \A d \in Conns : TasksOf(f, d) => TasksOf(f, d)'
    BY <1>1 DEF Queued, TasksOf
  <2>3. \A v \in Workers : job[v].fd = f \/ job'[v].fd = f =>
          job'[v] = job[v] /\ wpc'[v] = wpc[v] /\ wconn'[v] = wconn[v]
    BY <1>1, <1>2, <1>3, NoneIsNothing
  <2>4. QED
    BY <1>1, <2>1, <2>2, <2>3, Untouched
<1>6. QED
  BY <1>4, <1>5 DEF Sound

(* A closure that has its connection is the only one to serve it.           *)
LEMMA LiveServer ==
  ASSUME Fine, NEW w \in Workers, wpc[w] \notin Final \cup {"idle", "exited"},
         wpc[w] = "modin" => ~m_is_closed[job[w].conn]
  PROVE  /\ job[w].fd \in Fds /\ job[w].conn \in Conns
         /\ owner[job[w].fd] = job[w].conn /\ InUse(job[w].fd, job[w].conn)
         /\ ~m_is_closed[job[w].conn] /\ m_sockfd[job[w].conn] = job[w].fd
         /\ ~Installing(job[w].fd) /\ mfd # job[w].fd
         /\ ~Armed(job[w].fd) /\ ~Fetched(job[w].fd) /\ ~Queued(job[w].fd) /\ ~Handled(job[w].fd)
         /\ \A v \in Workers : v # w /\ job[v].fd = job[w].fd => wpc[v] \in Final
<1>1. /\ job[w].fd \in Fds /\ job[w].conn \in Conns
      /\ owner[job[w].fd] = job[w].conn /\ InUse(job[w].fd, job[w].conn)
      /\ ~m_is_closed[job[w].conn]
  BY LiveWorker DEF Final
<1>2. Served(job[w].fd)
  BY DEF Served
<1>3. /\ ~Installing(job[w].fd) /\ mfd # job[w].fd
      /\ ~Armed(job[w].fd) /\ ~Fetched(job[w].fd) /\ ~Queued(job[w].fd) /\ ~Handled(job[w].fd)
  BY <1>1, <1>2, ServedAlone
<1>4. m_sockfd[job[w].conn] = job[w].fd
  BY <1>1, <1>3 DEF InUse
<1>5. \A v \in Workers : v # w /\ job[v].fd = job[w].fd => wpc[v] \in Final
  BY <1>1 DEF InUse, OneServer
<1>6. QED
  BY <1>1, <1>3, <1>4, <1>5

(* modFd gives the connection back to epoll.                                *)
LEMMA WorkerModSound ==
  ASSUME Fine, NEW w \in Workers, wpc[w] \in {"modin", "modout"},
         NEW ev \in {"in", "out"}, ModFd(job[w].fd, ev), To(w, AfterModFd(w)),
         UNCHANGED <<owner, m_users, batch, m_tasks, job, wconn, mpc, mfd, mconn,
                     m_sockfd, m_is_closed, cst>>
  PROVE  Sound'
<1>10. CASE wpc[w] = "modin" /\ m_is_closed[job[w].conn]
  <2>1. PICK f \in Fds : f = job[w].fd
    BY <1>10, LiveWorker
  <2>2. ~Gone(w) /\ FdOK(f)
    BY <1>10 DEF Gone, Final, Fine, Sound
  <2>3. owner[f] = None
    BY <1>10, <2>1, <2>2 DEF FdOK, InUse, WorkersOf
  <2>4. interest' = interest
    BY <2>1, <2>2, <2>3 DEF FdOK, Free, ModFd
  <2>5. AfterModFd(w) \in Final
    BY DEF AfterModFd, Final
  <2>6. QED
    BY <1>10, <2>4, <2>5, WorkerEnds
<1> SUFFICES ASSUME wpc[w] = "modin" => ~m_is_closed[job[w].conn] PROVE Sound'
  BY <1>10
<1>1. PICK f \in Fds, c \in Conns : f = job[w].fd /\ c = job[w].conn
  BY LiveServer DEF Final
<1>2. /\ owner[f] = c /\ InUse(f, c) /\ m_sockfd[c] = f /\ ~Installing(f) /\ mfd # f
      /\ ~Fetched(f) /\ ~Queued(f) /\ ~Handled(f) /\ m_users[f] = c
      /\ \A v \in Workers : v # w /\ job[v].fd = f => wpc[v] \in Final
  BY <1>1, LiveServer, LiveWorker DEF Final
<1>3. /\ interest'[f] = ev /\ \A g \in Fds : g # f => interest'[g] = interest[g]
  BY <1>1, <1>2 DEF ModFd, InUse, Fine, TypeOK
<1>4. /\ wpc'[w] \in {"refresh", "check"}
      /\ \A v \in Workers : v # w => wpc'[v] = wpc[v]
  BY DEF To, AfterModFd, Fine, TypeOK
<1>5. FreshOK'
  BY DEF Fine, Sound, FreshOK
<1>6. ASSUME NEW g \in Fds, g # f
      PROVE  FdOK(g)'
  <2>1. TypeOK /\ FdOK(g)
    BY DEF Fine, Sound
  <2>2. (Queued(g)' <=> Queued(g)) /\ \A d \in Conns : TasksOf(g, d) => TasksOf(g, d)'
    BY DEF Queued, TasksOf
  <2>3. \A v \in Workers : job[v].fd = g \/ job'[v].fd = g =>
          job'[v] = job[v] /\ wpc'[v] = wpc[v] /\ wconn'[v] = wconn[v]
    BY <1>1, <1>4, <1>6
  <2>4. QED
    BY <1>3, <1>6, <2>1, <2>2, <2>3, Untouched
<1>7. InUse(f, c)'
  <2>1. Armed(f)' /\ ~Fetched(f)' /\ ~Queued(f)' /\ ~Handled(f)' /\ ~Installing(f)'
    BY <1>2, <1>3 DEF Armed, Fetched, Queued, Handled, Installing
  <2>2. \A v \in Workers : job[v].fd = f => wpc'[v] \in Final
    BY <1>2, <1>4 DEF Final
  <2>3. ~Served(f)' /\ OneServer(f)'
    BY <2>2 DEF Served, OneServer
  <2>4. OneKind(f)' /\ OneEvent(f)' /\ TasksOf(f, c)'
    BY <1>2, <2>1, <2>3 DEF InUse, OneKind, OneEvent, TasksOf
  <2>5. WorkersOf(f, c)'
    BY <1>1, <1>2, <1>4 DEF InUse, WorkersOf, Gone
  <2>6. MainOf(f, c)'
    BY <1>2 DEF MainOf
  <2>7. interest'[f] # "none" /\ cst'[c] = "accepted" /\ ~m_is_closed'[c]
    BY <1>2, <1>3 DEF InUse
  <2>8. QED
    BY <1>2, <2>1, <2>3, <2>4, <2>5, <2>6, <2>7, InUseAfter
<1>8. FdOK(f)'
  BY <1>2, <1>7, NoneIsNothing DEF FdOK
<1>9. QED
  BY <1>5, <1>6, <1>8 DEF Sound

(* process() closes the connection of the closure it runs in.               *)
LEMMA WorkerProcessFailsSound ==
  ASSUME Fine, NEW w \in Workers, WorkerProcessFails(w)
  PROVE  Sound'
<1>1. PICK f \in Fds, c \in Conns : f = job[w].fd /\ c = job[w].conn
  BY LiveServer DEF Final, WorkerProcessFails
<1>2. /\ owner[f] = c /\ InUse(f, c) /\ m_sockfd[c] = f /\ mfd # f
      /\ ~Fetched(f) /\ ~Queued(f)
      /\ m_users[f] = c /\ ~m_is_closed[c]
      /\ \A v \in Workers : v # w /\ job[v].fd = f => wpc[v] \in Final
  BY <1>1, LiveServer, LiveWorker DEF Final, WorkerProcessFails
<1>3. /\ CloseConns({c}, {}, {}) /\ wpc' = [wpc EXCEPT ![w] = "modin"]
      /\ UNCHANGED <<m_users, batch, m_tasks, job, wconn, mpc, mfd, mconn, cst>>
  BY <1>1 DEF WorkerProcessFails, To, loop
<1>4. /\ owner'[f] = None /\ interest'[f] = "none"
      /\ \A g \in Fds : g # f => owner'[g] = owner[g] /\ interest'[g] = interest[g]
      /\ m_is_closed'[c]
      /\ \A d \in Conns : d # c => m_sockfd'[d] = m_sockfd[d] /\ m_is_closed'[d] = m_is_closed[d]
  BY <1>2, <1>3, CloseOne DEF Fine
<1>5. wpc'[w] = "modin" /\ \A v \in Workers : v # w => wpc'[v] = wpc[v]
  BY <1>3 DEF Fine, TypeOK
<1>6. \A d \in Conns : m_is_closed[d] => m_is_closed'[d]
  BY <1>4
<1>7. FreshOK'
  BY <1>2, <1>3, <1>4 DEF Fine, Sound, FreshOK, InUse
<1>8. ASSUME NEW g \in Fds, g # f
      PROVE  FdOK(g)'
  <2>1. TypeOK /\ FdOK(g)
    BY DEF Fine, Sound
  <2>2. (Queued(g)' <=> Queued(g)) /\ \A d \in Conns : TasksOf(g, d) => TasksOf(g, d)'
    BY <1>3 DEF Queued, TasksOf
  <2>3. owner[g] # c
    BY <1>2, <1>8, OwnerInjective, NoneIsNothing
  <2>4. \A v \in Workers : job[v].fd = g \/ job'[v].fd = g =>
          job'[v] = job[v] /\ wpc'[v] = wpc[v] /\ wconn'[v] = wconn[v]
    BY <1>1, <1>3, <1>5, <1>8
  <2>5. QED
    BY <1>3, <1>4, <1>6, <1>8, <2>1, <2>2, <2>3, <2>4, Untouched
<1>9. Free(f)'
  <2>1. ~Fetched(f)' /\ ~Queued(f)' /\ Stale(f)'
    BY <1>2, <1>3, <1>4 DEF Fetched, Queued, Stale
  <2>2. ASSUME NEW v \in Workers, job'[v].fd = f
        PROVE  Over(v)'
    <3>1. CASE v = w
      BY <1>1, <1>3, <1>4, <1>5, <3>1 DEF Over
    <3>2. CASE v # w
      <4>1. job[v].fd = f /\ wpc[v] \in Final
        BY <1>2, <1>3, <2>2, <3>2
      <4>2. Gone(v) \/ job[v].conn = c
        BY <1>2, <4>1 DEF InUse, WorkersOf
      <4>3. job[v].conn \in Conns
        BY <4>1, JobOf DEF Fine
      <4>4. QED
        BY <1>3, <1>4, <1>5, <1>6, <3>2, <4>1, <4>2, <4>3 DEF Gone, Over
    <3>3. QED
      BY <3>1, <3>2
  <2>3. QED
    BY <1>2, <1>3, <1>4, <2>1, <2>2 DEF Free
<1>10. FdOK(f)'
  BY <1>4, <1>9 DEF FdOK
<1>11. QED
  BY <1>7, <1>8, <1>10 DEF Sound

LEMMA WorkerEraseSound ==
  ASSUME Fine, NEW w \in Workers, WorkerErase(w), ~raced'
  PROVE  Sound'
<1>1. PICK f \in Fds, c \in Conns : f = job[w].fd /\ c = job[w].conn
  BY LiveServer DEF Final, WorkerErase
<1>2. /\ owner[f] = c /\ InUse(f, c) /\ m_sockfd[c] = f /\ ~Installing(f) /\ mfd # f
      /\ ~Armed(f) /\ ~Fetched(f) /\ ~Queued(f) /\ ~Handled(f)
      /\ m_users[f] = c /\ ~m_is_closed[c] /\ wpc[w] = "erase"
      /\ \A v \in Workers : v # w /\ job[v].fd = f => wpc[v] \in Final
  BY <1>1, LiveServer, LiveWorker DEF Final, WorkerErase
<1>3. /\ wconn' = [wconn EXCEPT ![w] = c] /\ m_users' = [m_users EXCEPT ![f] = None]
      /\ ~Busy(c, w) /\ wpc' = [wpc EXCEPT ![w] = "close"]
      /\ UNCHANGED <<owner, interest, batch, m_tasks, job, mpc, mfd, mconn, m_sockfd,
                     m_is_closed, cst>>
  BY <1>1, <1>2, NoneIsNothing DEF WorkerErase, Closable, To, kernel, client, conn, loop
<1>4. /\ wconn'[w] = c /\ wpc'[w] = "close" /\ m_users'[f] = None
      /\ \A v \in Workers : v # w => wconn'[v] = wconn[v] /\ wpc'[v] = wpc[v]
      /\ \A g \in Fds : g # f => m_users'[g] = m_users[g]
  BY <1>3 DEF Fine, TypeOK
<1>5. \A v \in Workers : v # w /\ job[v].fd = f => Gone(v)
  BY <1>2, <1>3, NotBusy, NoneIsNothing
<1>6. FreshOK'
  BY <1>3 DEF Fine, Sound, FreshOK
<1>7. ASSUME NEW g \in Fds, g # f
      PROVE  FdOK(g)'
  <2>1. TypeOK /\ FdOK(g)
    BY DEF Fine, Sound
  <2>2. (Queued(g)' <=> Queued(g)) /\ \A d \in Conns : TasksOf(g, d) => TasksOf(g, d)'
    BY <1>3 DEF Queued, TasksOf
  <2>3. \A v \in Workers : job[v].fd = g \/ job'[v].fd = g =>
          job'[v] = job[v] /\ wpc'[v] = wpc[v] /\ wconn'[v] = wconn[v]
    BY <1>1, <1>3, <1>4, <1>7
  <2>4. QED
    BY <1>3, <1>4, <1>7, <2>1, <2>2, <2>3, Untouched
<1>8. InUse(f, c)'
  <2>1. ~Armed(f)' /\ ~Fetched(f)' /\ ~Queued(f)' /\ ~Handled(f)' /\ ~Installing(f)'
    BY <1>2, <1>3 DEF Armed, Fetched, Queued, Handled, Installing
  <2>2. Served(f)' /\ Closing(f)'
    BY <1>1, <1>3, <1>4 DEF Served, Closing, Final
  <2>3. OneServer(f)'
    BY <1>2, <1>3, <1>4 DEF OneServer
  <2>4. OneKind(f)' /\ OneEvent(f)' /\ TasksOf(f, c)'
    BY <1>2, <1>3, <2>1, <2>2 DEF InUse, OneKind, OneEvent, TasksOf
  <2>5. WorkersOf(f, c)'
    BY <1>1, <1>3, <1>4, <1>5 DEF WorkersOf, Gone
  <2>6. MainOf(f, c)'
    BY <1>2, <1>3 DEF MainOf
  <2>7. interest'[f] # "none" /\ cst'[c] = "accepted" /\ ~m_is_closed'[c] /\ m_sockfd'[c] = f
    BY <1>2, <1>3 DEF InUse
  <2>8. QED
    BY <1>4, <2>1, <2>2, <2>3, <2>4, <2>5, <2>6, <2>7, InUseAfter
<1>9. FdOK(f)'
  BY <1>2, <1>3, <1>8, NoneIsNothing DEF FdOK
<1>10. QED
  BY <1>6, <1>7, <1>9 DEF Sound

LEMMA WorkerCloseSound == ASSUME Fine, NEW w \in Workers, WorkerClose(w) PROVE Sound'
<1>1. PICK f \in Fds, c \in Conns : f = job[w].fd /\ c = job[w].conn
  BY LiveServer DEF Final, WorkerClose
<1>2. /\ owner[f] = c /\ InUse(f, c) /\ m_sockfd[c] = f /\ mfd # f
      /\ ~Fetched(f) /\ ~Queued(f)
      /\ m_users[f] = None /\ wconn[w] = c /\ ~m_is_closed[c]
      /\ \A v \in Workers : v # w /\ job[v].fd = f => wpc[v] \in Final
  BY <1>1, LiveServer, LiveWorker DEF Final, WorkerClose
<1>3. /\ CloseConns({c}, {f}, {})
      /\ wconn' = [wconn EXCEPT ![w] = None] /\ wpc' = [wpc EXCEPT ![w] = "done"]
      /\ UNCHANGED <<m_users, batch, m_tasks, job, mpc, mfd, mconn, cst>>
  BY <1>1, <1>2 DEF WorkerClose, To, loop
<1>4. /\ owner'[f] = None /\ interest'[f] = "none"
      /\ \A g \in Fds : g # f => owner'[g] = owner[g] /\ interest'[g] = interest[g]
      /\ m_is_closed'[c]
      /\ \A d \in Conns : d # c => m_sockfd'[d] = m_sockfd[d] /\ m_is_closed'[d] = m_is_closed[d]
  BY <1>2, <1>3, CloseOne DEF Fine
<1>5. /\ wpc'[w] = "done"
      /\ \A v \in Workers : v # w => wconn'[v] = wconn[v] /\ wpc'[v] = wpc[v]
  BY <1>3 DEF Fine, TypeOK
<1>6. \A d \in Conns : m_is_closed[d] => m_is_closed'[d]
  BY <1>4
<1>7. FreshOK'
  BY <1>2, <1>3, <1>4 DEF Fine, Sound, FreshOK, InUse
<1>8. ASSUME NEW g \in Fds, g # f
      PROVE  FdOK(g)'
  <2>1. TypeOK /\ FdOK(g)
    BY DEF Fine, Sound
  <2>2. (Queued(g)' <=> Queued(g)) /\ \A d \in Conns : TasksOf(g, d) => TasksOf(g, d)'
    BY <1>3 DEF Queued, TasksOf
  <2>3. owner[g] # c
    BY <1>2, <1>8, OwnerInjective, NoneIsNothing
  <2>4. \A v \in Workers : job[v].fd = g \/ job'[v].fd = g =>
          job'[v] = job[v] /\ wpc'[v] = wpc[v] /\ wconn'[v] = wconn[v]
    BY <1>1, <1>3, <1>5, <1>8
  <2>5. QED
    BY <1>3, <1>4, <1>6, <1>8, <2>1, <2>2, <2>3, <2>4, Untouched
<1>9. Free(f)'
  <2>1. ~Fetched(f)' /\ ~Queued(f)'
    BY <1>2, <1>3 DEF Fetched, Queued
  <2>2. ASSUME NEW v \in Workers, job'[v].fd = f
        PROVE  Over(v)'
    <3>1. CASE v = w
      BY <1>1, <1>3, <1>4, <1>5, <3>1 DEF Over, Final
    <3>2. CASE v # w
      <4>1. job[v].fd = f /\ wpc[v] \in Final
        BY <1>2, <1>3, <2>2, <3>2
      <4>2. Gone(v)
        BY <1>2, <4>1, NoneIsNothing DEF InUse, WorkersOf, Final
      <4>3. job[v].conn \in Conns
        BY <4>1, JobOf DEF Fine
      <4>4. QED
        BY <1>3, <1>5, <1>6, <3>2, <4>2, <4>3 DEF Gone, Over
    <3>3. QED
      BY <3>1, <3>2
  <2>3. QED
    BY <1>2, <1>3, <1>4, <2>1, <2>2 DEF Free, Stale
<1>10. FdOK(f)'
  BY <1>4, <1>9 DEF FdOK
<1>11. QED
  BY <1>7, <1>8, <1>10 DEF Sound

(* The end of a closure destroys a connection only after its close: until   *)
(* then m_users has a reference too.                                        *)
LEMMA WorkerDoneSound == ASSUME Fine, NEW w \in Workers, WorkerDone(w) PROVE Sound'
<1>1. PICK f \in Fds, c \in Conns : f = job[w].fd /\ c = job[w].conn
  BY LiveWorker DEF WorkerDone
<1>2. \A d \in LastRef({c}, w) : m_is_closed[d]
  <2> SUFFICES ASSUME ~m_is_closed[c], ~ReferredBeside(c, w) PROVE FALSE
    BY DEF LastRef
  <2>1. ~Gone(w) /\ FdOK(f)
    BY <1>1 DEF Gone, Fine, Sound
  <2>2. owner[f] # None /\ InUse(f, owner[f])
    BY <1>1, <2>1 DEF FdOK, Free, Over
  <2>3. m_users[f] = c
    BY <1>1, <2>1, <2>2 DEF InUse, WorkersOf, WorkerDone
  <2>4. QED
    BY <2>3 DEF ReferredBeside
<1>3. /\ CloseConns(LastRef({c}, w), {}, LastRef({c}, w)) /\ wpc[w] = "done"
      /\ job' = [job EXCEPT ![w] = NoTask]
      /\ UNCHANGED <<m_users, batch, m_tasks, wconn, mpc, mfd, mconn, cst>>
  BY <1>1 DEF WorkerDone, loop
<1>4. /\ \A g \in Fds : owner'[g] = owner[g] /\ interest'[g] = interest[g]
      /\ \A d \in Conns : m_sockfd'[d] = m_sockfd[d] /\ m_is_closed'[d] = m_is_closed[d]
  BY <1>2, <1>3, CloseNothing DEF Fine
<1>5. /\ job'[w].fd = None /\ wpc'[w] \in {"idle", "exited"}
      /\ \A v \in Workers : v # w => job'[v] = job[v] /\ wpc'[v] = wpc[v]
  BY <1>3, TaskFields DEF WorkerDone, To, Fine, TypeOK
<1>6. FreshOK'
  BY <1>3, <1>4 DEF Fine, Sound, FreshOK
<1>7. ASSUME NEW g \in Fds
      PROVE  FdOK(g)'
  <2>1. FdOK(g)
    BY DEF Fine, Sound
  <2>2. /\ Armed(g)' <=> Armed(g)
        /\ Fetched(g)' <=> Fetched(g)
        /\ Queued(g)' <=> Queued(g)
        /\ Handled(g)' <=> Handled(g)
        /\ Installing(g)' <=> Installing(g)
    BY <1>3, <1>4 DEF Armed, Fetched, Queued, Handled, Installing
  <2>3. Served(g)' <=> Served(g)
    BY <1>3, <1>5, NoneIsNothing DEF Served, Final
  <2>4. Closing(g) => Closing(g)'
    BY <1>3, <1>5 DEF Closing
  <2>5. ASSUME NEW v \in Workers, job'[v].fd = g
        PROVE  /\ v # w /\ job'[v] = job[v] /\ wpc'[v] = wpc[v] /\ wconn'[v] = wconn[v]
               /\ Gone(v)' <=> Gone(v)
               /\ Over(v)' <=> Over(v)
    <3>1. v # w
      BY <1>5, <2>5, NoneIsNothing
    <3>2. job'[v] = job[v] /\ wpc'[v] = wpc[v] /\ wconn'[v] = wconn[v] /\ job[v].conn \in Conns
      BY <1>3, <1>5, <2>5, <3>1, JobOf DEF Fine
    <3>3. QED
      BY <1>4, <3>1, <3>2 DEF Gone, Over
  <2>9. Stale(g)' <=> Stale(g)
    BY <1>3, <1>4 DEF Stale, Fine, TypeOK
  <2>6. CASE owner[g] = None
    <3>1. Free(g)
      BY <2>1, <2>6 DEF FdOK
    <3>2. Free(g)'
      BY <1>3, <1>4, <2>2, <2>5, <2>9, <3>1 DEF Free
    <3>3. QED
      BY <1>4, <2>6, <3>2 DEF FdOK
  <2>7. CASE owner[g] # None
    <3>1. PICK d \in Conns : d = owner[g] /\ InUse(g, d)
      BY <2>1, <2>7 DEF FdOK, Fine, TypeOK
    <3>2. OneKind(g)' /\ OneEvent(g)' /\ TasksOf(g, d)'
      BY <1>3, <2>2, <2>3, <3>1 DEF InUse, OneKind, OneEvent, TasksOf
    <3>3. OneServer(g)'
      BY <2>5, <3>1 DEF InUse, OneServer
    <3>4. WorkersOf(g, d)'
      BY <1>3, <2>5, <3>1 DEF InUse, WorkersOf
    <3>5. MainOf(g, d)'
      BY <1>3, <1>4, <2>2, <2>9, <3>1 DEF InUse, MainOf
    <3>6. InUse(g, d)'
      BY <1>3, <1>4, <2>2, <2>4, <3>1, <3>2, <3>3, <3>4, <3>5 DEF InUse
    <3>7. QED
      BY <1>4, <3>1, <3>6, NoneIsNothing DEF FdOK
  <2>8. QED
    BY <2>6, <2>7
<1>8. QED
  BY <1>6, <1>7 DEF Sound

(* The steps of a closure that only take it on.                             *)
LEMMA WorkerGoesOn ==
  ASSUME Fine, NEW w \in Workers,
         \/ WorkerRead(w) \/ WorkerProcessed(w) \/ WorkerUnprocessed(w) \/ WorkerCallback(w)
         \/ WorkerCheck(w) \/ WorkerRefresh(w) \/ WorkerWriteOK(w) \/ WorkerWriteAgain(w)
         \/ WorkerWriteError(w) \/ WorkerInit(w)
  PROVE  Sound'
<1>1. CASE WorkerRead(w)
  <2>1. PICK x \in {"process", "erase"} : To(w, x)
    BY <1>1 DEF WorkerRead
  <2>2. QED
    BY <1>1, <2>1, WorkerMoves DEF WorkerRead, WorkerPC, Final, kernel, loop
<1>2. CASE WorkerProcessed(w)
  BY <1>2, WorkerMoves DEF WorkerProcessed, WorkerPC, Final, kernel, loop, client
<1>3. CASE WorkerUnprocessed(w)
  BY <1>3, WorkerMoves DEF WorkerUnprocessed, WorkerPC, Final, kernel, loop, client, conn
<1>4. CASE WorkerCallback(w)
  <2>1. ~m_is_closed[job[w].conn]
    BY <1>4, LiveWorker DEF WorkerCallback, Final
  <2>2. To(w, "modout")
    BY <1>4, <2>1 DEF WorkerCallback
  <2>3. QED
    BY <1>4, <2>2, WorkerMoves DEF WorkerCallback, WorkerPC, Final, kernel, loop, client, conn
<1>5. CASE WorkerCheck(w)
  <2>1. PICK x \in {"done", "refresh"} : To(w, x)
    BY <1>5 DEF WorkerCheck
  <2>2. QED
    BY <1>5, <2>1, WorkerMoves, WorkerEnds DEF WorkerCheck, WorkerPC, Final, kernel, loop, client, conn
<1>6. CASE WorkerRefresh(w)
  BY <1>6, WorkerMoves, WorkerEnds DEF WorkerRefresh, WorkerPC, Final, kernel, loop, client, conn
<1>7. CASE WorkerWriteOK(w)
  <2>1. PICK x \in {"init", "erase"} : To(w, x)
    BY <1>7 DEF WorkerWriteOK
  <2>2. QED
    BY <1>7, <2>1, WorkerMoves DEF WorkerWriteOK, WorkerPC, Final, kernel, loop, conn
<1>8. CASE WorkerWriteAgain(w)
  <2>1. PICK x \in {"rewrite", "modout"} : To(w, x)
    BY <1>8 DEF WorkerWriteAgain
  <2>2. QED
    BY <1>8, <2>1, WorkerMoves DEF WorkerWriteAgain, WorkerPC, Final, kernel, loop, client, conn
<1>9. CASE WorkerWriteError(w)
  <2>1. PICK x \in {"rewrite", "erase"} : To(w, x)
    BY <1>9 DEF WorkerWriteError
  <2>2. QED
    BY <1>9, <2>1, WorkerMoves DEF WorkerWriteError, WorkerPC, Final, kernel, loop, client, conn
<1>10. CASE WorkerInit(w)
  <2>1. /\ job[w].conn \in Conns /\ m_sockfd[job[w].conn] = job[w].fd
        /\ ~m_is_closed[job[w].conn]
    BY <1>10, LiveServer DEF WorkerInit, Final
  <2>2. m_is_closed[job[w].conn] = FALSE
    BY <2>1 DEF Fine, TypeOK
  <2>3. m_sockfd' = m_sockfd
    BY <1>10, <2>1 DEF WorkerInit, HttpInit, Fine, TypeOK
  <2>4. m_is_closed' = m_is_closed
    BY <1>10, <2>1, <2>2 DEF WorkerInit, HttpInit, Fine, TypeOK
  <2>5. QED
    BY <1>10, <2>3, <2>4, WorkerMoves DEF WorkerInit, WorkerPC, Final, kernel, loop, client
<1>11. QED
  BY <1>1, <1>2, <1>3, <1>4, <1>5, <1>6, <1>7, <1>8, <1>9, <1>10

LEMMA WorkerStepSound ==
  ASSUME Fine, NEW w \in Workers, WorkerStep(w), ~raced'
  PROVE  Sound'
<1>1. CASE WorkerTake(w)
  BY <1>1, WorkerTakeSound
<1>2. CASE WorkerExit(w)
  BY <1>2, WorkerExitSound
<1>3. CASE WorkerProcessFails(w)
  BY <1>3, WorkerProcessFailsSound
<1>4. CASE WorkerModOut(w)
  BY <1>4, WorkerModSound DEF WorkerModOut, client, conn, loop
<1>5. CASE WorkerModIn(w)
  BY <1>5, WorkerModSound DEF WorkerModIn, client, conn, loop
<1>6. CASE WorkerErase(w)
  BY <1>6, WorkerEraseSound
<1>7. CASE WorkerClose(w)
  BY <1>7, WorkerCloseSound
<1>8. CASE WorkerDone(w)
  BY <1>8, WorkerDoneSound
<1>9. QED
  BY <1>1, <1>2, <1>3, <1>4, <1>5, <1>6, <1>7, <1>8, WorkerGoesOn DEF WorkerStep

LEMMA MainStepSound == Fine /\ MainStep /\ ~raced' => Sound'
<1> SUFFICES ASSUME Fine, MainStep, ~raced' PROVE Sound'
  OBVIOUS
<1>1. \A e \in batch \ {ListenEvent, SignalEvent} : e.fd \in Fds
  BY EventFields DEF Fine, TypeOK
<1>2. CASE TickSkip
  BY <1>2, LoopStep DEF TickSkip, kernel, client, conn, loop, pool
<1>3. CASE TickEnd
  <2>1. mfd = None
    BY <1>3 DEF TickEnd, Fine, Threads
  <2>2. QED
    BY <1>3, <2>1, LoopStep DEF TickEnd, kernel, client, conn, pool
<1>4. CASE AcceptFails
  <2>1. \A e \in batch \cup batch' : e.fd \in Fds => (e \in batch <=> e \in batch')
    BY <1>4, EventFields, NoneIsNothing DEF AcceptFails
  <2>2. QED
    BY <1>4, <2>1, LoopStep DEF AcceptFails, kernel, client, conn, pool
<1>5. CASE DispatchEnd
  <2>1. mfd = None
    BY <1>5 DEF DispatchEnd, Fine, Threads
  <2>2. QED
    BY <1>5, <2>1, LoopStep DEF DispatchEnd, kernel, client, conn, pool
<1>6. CASE ShutdownJoin
  <2>1. mfd = None
    BY <1>6 DEF ShutdownJoin, Fine, Threads
  <2>2. QED
    BY <1>6, <2>1, LoopStep DEF ShutdownJoin, kernel, client, conn, pool
<1>7. CASE TickClose
  BY <1>7, MainCloses DEF TickClose, pool
<1>8. CASE MainClose
  BY <1>8, MainCloses DEF MainClose, pool
<1>9. QED
  BY <1>2, <1>3, <1>4, <1>5, <1>6, <1>7, <1>8, EpollWaitSound, TickEraseSound, AcceptSound,
     InstallSound, InitConnSound, DispatchIgnoredSound, DispatchTaskSound, DispatchReadSound,
     MainReadSound, MainEraseSound, ShutdownSound
     DEF MainStep

(* Until a connection is closed under a running closure, or its number is *)
(* given out while a closure has yet to re-arm it, Sound holds, and so it *)
(* does after every step that does neither.                               *)
LEMMA SoundStep == Fine /\ [Next]_vars /\ ~raced' => Sound'
<1> SUFFICES ASSUME Fine, [Next]_vars, ~raced' PROVE Sound'
  OBVIOUS
<1>1. ASSUME NEW c \in Conns, Connect(c) \/ Send(c) \/ ClientClose(c)
      PROVE  Sound'
  <2>1. /\ UNCHANGED <<owner, interest, m_users, m_tasks, job, wpc, wconn, m_sockfd, m_is_closed,
                       mpc, mfd, mconn, batch>>
        /\ \A d \in Conns : cst[d] = "accepted" <=> cst'[d] = "accepted"
    BY <1>1 DEF Connect, Send, ClientClose, kernel, conn, loop, pool, Fine, TypeOK
  <2>2. QED
    BY <2>1, LoopStep
<1>2. CASE Signal
  <2>1. UNCHANGED <<mpc, mfd, mconn>> \/ (mfd = None /\ mfd' = None)
    BY <1>2 DEF Signal, Fine, Threads
  <2>2. QED
    BY <1>2, <2>1, LoopStep DEF Signal, kernel, client, conn, pool
<1>3. CASE MainStep
  BY <1>3, MainStepSound
<1>4. ASSUME NEW w \in Workers, WorkerStep(w)
      PROVE  Sound'
  BY <1>4, WorkerStepSound
<1>5. CASE UNCHANGED vars
  BY <1>5, LoopStep DEF vars, kernel, client, conn, loop, pool
<1>6. QED
  BY <1>1, <1>2, <1>3, <1>4, <1>5 DEF Next

LEMMA RacedStays == [Next]_vars /\ ~raced' => ~raced
<1> SUFFICES ASSUME [Next]_vars, raced PROVE raced'
  OBVIOUS
<1>1. CASE UNCHANGED vars
  BY <1>1 DEF vars
<1>2. ASSUME NEW c \in Conns, Connect(c) \/ Send(c) \/ ClientClose(c)
      PROVE  raced'
  BY <1>2 DEF Connect, Send, ClientClose
<1>3. CASE Signal
  BY <1>3 DEF Signal
<1>4. CASE MainStep
  BY <1>4 DEF MainStep, EpollWait, TickSkip, TickErase, TickClose, TickEnd, Accept, AcceptFails,
              InstallConn, InitConn, DispatchIgnored, DispatchTask, DispatchRead, MainRead,
              MainErase, MainClose, DispatchEnd, Shutdown, ShutdownJoin
<1>5. ASSUME NEW w \in Workers, WorkerStep(w)
      PROVE  raced'
  BY <1>5 DEF WorkerStep, WorkerTake, WorkerExit, WorkerRead, WorkerProcessed, WorkerUnprocessed,
              WorkerProcessFails, WorkerCallback, WorkerModOut, WorkerModIn, WorkerCheck,
              WorkerRefresh, WorkerWriteOK, WorkerWriteAgain, WorkerWriteError, WorkerInit,
              WorkerErase, WorkerClose, WorkerDone
<1>6. QED
  BY <1>1, <1>2, <1>3, <1>4, <1>5 DEF Next

LEMMA SoundAtStart == Init => Sound
<1> SUFFICES ASSUME Init PROVE Sound
  OBVIOUS
<1>1. FreshOK
  BY DEF Init, FreshOK
<1>2. ASSUME NEW f \in Fds
      PROVE  Free(f) /\ owner[f] = None
  <2>1. \A w \in Workers : job[w].fd = None
    BY TaskFields DEF Init
  <2>2. ~Fetched(f)
    BY DEF Init, Fetched
  <2>3. Len(m_tasks) = 0
    BY DEF Init
  <2>4. ~Queued(f)
    BY <2>3 DEF Queued
  <2>5. interest[f] = "none" /\ m_users[f] = None /\ mfd # f /\ owner[f] = None
    BY NoneIsNothing DEF Init
  <2>6. QED
    BY <2>1, <2>2, <2>4, <2>5, NoneIsNothing DEF Free, Stale
<1>3. QED
  BY <1>1, <1>2 DEF Sound, FdOK

Agreed == ~raced => Sound

LEMMA AgreedAlways == Spec => []Agreed
<1>1. Init => Agreed
  BY SoundAtStart DEF Agreed
<1>2. Agreed /\ (TypeOK /\ Threads) /\ [Next]_vars => Agreed'
  BY RacedStays, SoundStep DEF Agreed, Fine
<1>3. QED
  BY <1>1, <1>2, TypesAlways, PTL DEF Spec

(* Until a connection is closed under a running closure, or its number is *)
(* given out while a closure has yet to re-arm it, m_users, the           *)
(* descriptor table and the HttpConn objects agree, with any number of    *)
(* clients, descriptors and workers, in both actor models and both        *)
(* trigger modes (handleNewConnection, closeConnection and shutdown of    *)
(* net_server.cpp).                                                       *)
THEOREM UsersAlwaysAgree == Spec => []UsersAgree
<1>1. TypeOK /\ Agreed => UsersAgree
  <2> SUFFICES ASSUME TypeOK, Sound, NEW f \in Fds
               PROVE  /\ m_users[f] # None /\ ~Installing(f) =>
                           IF owner[f] = None THEN m_is_closed[m_users[f]]
                           ELSE /\ owner[f] = m_users[f]
                                /\ m_sockfd[m_users[f]] = f
                                /\ ~m_is_closed[m_users[f]]
                      /\ owner[f] # None /\ m_users[f] = None =>
                           \/ Installing(f)
                           \/ mpc \in {"close", "tickclose"} /\ mfd = f
                           \/ \E w \in Workers : wpc[w] = "close" /\ job[w].fd = f
    BY DEF Agreed, UsersAgree
  <2>1. FdOK(f)
    BY DEF Sound
  <2>2. owner[f] = None => m_users[f] = None \/ m_is_closed[m_users[f]]
    BY <2>1 DEF FdOK, Free, Stale
  <2>3. owner[f] # None => InUse(f, owner[f])
    BY <2>1 DEF FdOK
  <2>4. QED
    BY <2>2, <2>3 DEF InUse, Closing
<1>2. QED
  BY <1>1, AgreedAlways, TypeCorrect, PTL

(* EPOLLONESHOT as epoll_utils.cpp and net_server.cpp use it, with any    *)
(* number of clients, descriptors and workers: until a connection is      *)
(* closed under a running closure, or its number is given out while a     *)
(* closure has yet to re-arm it, an open connection has exactly one       *)
(* owner.                                                                 *)
THEOREM OneOwner == Spec => []OneToken
<1>1. Agreed => OneToken
  <2> SUFFICES ASSUME Sound, NEW f \in Fds, owner[f] # None
               PROVE  Tokens(f) = 1
    BY DEF Agreed, OneToken
  <2>1. InUse(f, owner[f])
    BY DEF Sound, FdOK
  <2>2. OneKind(f) /\ OneEvent(f) /\ OneServer(f) /\ TasksOf(f, owner[f])
    BY <2>1 DEF InUse
  <2> DEFINE B == {e \in batch : e.fd = f}
             T == {i \in 1..Len(m_tasks) : m_tasks[i].fd = f}
             S == {w \in Workers : job[w].fd = f /\ Active(w)}
  <2>3. Cardinality(B) = IF Fetched(f) THEN 1 ELSE 0
    <3>1. CASE Fetched(f)
      <4>1. PICK e : B = {e}
        BY <2>2, <3>1 DEF Fetched, OneEvent
      <4>2. QED
        BY <3>1, <4>1, FS_Singleton
    <3>2. CASE ~Fetched(f)
      <4>1. B = {}
        BY <3>2 DEF Fetched
      <4>2. QED
        BY <3>2, <4>1, FS_EmptySet
    <3>3. QED
      BY <3>1, <3>2
  <2>4. Cardinality(T) = IF Queued(f) THEN 1 ELSE 0
    <3>1. CASE Queued(f)
      <4>1. PICK i : T = {i}
        BY <2>2, <3>1 DEF Queued, TasksOf
      <4>2. QED
        BY <3>1, <4>1, FS_Singleton
    <3>2. CASE ~Queued(f)
      <4>1. T = {}
        BY <3>2 DEF Queued
      <4>2. QED
        BY <3>2, <4>1, FS_EmptySet
    <3>3. QED
      BY <3>1, <3>2
  <2>5. Cardinality(S) = IF Served(f) THEN 1 ELSE 0
    <3>1. CASE Served(f)
      <4>1. PICK w : S = {w}
        BY <2>2, <3>1 DEF Served, OneServer, Final, Active
      <4>2. QED
        BY <3>1, <4>1, FS_Singleton
    <3>2. CASE ~Served(f)
      <4>1. S = {}
        BY <3>2 DEF Served, Final, Active
      <4>2. QED
        BY <3>2, <4>1, FS_EmptySet
    <3>3. QED
      BY <3>1, <3>2
  <2>6. Tokens(f) = (IF Armed(f) THEN 1 ELSE 0) + Cardinality(B) + Cardinality(T)
                    + Cardinality(S) + (IF Handled(f) THEN 1 ELSE 0)
    BY DEF Tokens, Armed, Handled
  <2> HIDE DEF B, T, S
  <2>7. QED
    BY <2>2, <2>3, <2>4, <2>5, <2>6 DEF OneKind
<1>2. QED
  BY <1>1, AgreedAlways, PTL

-----------------------------------------------------------------------------
(* Timers.                                                                  *)

Timed == \A f \in Fds : Closable(f) /\ ~Installing(f) => Occurs(f, timers)

(* A step that makes no connection closable: m_users gains no entry and no  *)
(* closed connection is opened again.                                       *)
LEMMA TimedStays ==
  ASSUME TypeOK, Timed,
         \A f \in Fds : m_users'[f] \in {m_users[f], None},
         \A c \in Conns : m_is_closed[c] => m_is_closed'[c],
         mpc \notin {"accepted", "installed"} \/ (mpc' = mpc /\ mfd' = mfd),
         \A f \in Fds : Closable(f)' /\ Occurs(f, timers) => Occurs(f, timers')
  PROVE  Timed'
<1> SUFFICES ASSUME NEW f \in Fds, Closable(f)', ~Installing(f)'
             PROVE  Occurs(f, timers')
  BY DEF Timed
<1>1. m_users'[f] = m_users[f] /\ m_users[f] # None /\ ~m_is_closed'[m_users[f]]
  BY DEF Closable
<1>2. m_users[f] \in Conns
  BY <1>1 DEF TypeOK
<1>3. Closable(f)
  BY <1>1, <1>2 DEF Closable
<1>4. ~Installing(f)
  BY DEF Installing
<1>5. QED
  BY <1>3, <1>4 DEF Timed

LEMMA CloseKeeps ==
  ASSUME NEW C, NEW D, NEW X, CloseConns(C, D, X)
  PROVE  \A c \in Conns : m_is_closed[c] => m_is_closed'[c]
BY DEF CloseConns

(* refreshTimer gives f a timer and takes none from the others.             *)
LEMMA RefreshOccurs ==
  ASSUME TypeOK, NEW f \in Fds, RefreshTimer(f)
  PROVE  Occurs(f, timers') /\ \A g \in Fds : Occurs(g, timers) => Occurs(g, timers')
<1>1. timers \in Seq(Fds) /\ Injective(timers)
  BY DEF TypeOK, Injective
<1>2. /\ RemoveFirst(timers, f) \in Seq(Fds)
      /\ Injective(RemoveFirst(timers, f)) /\ ~Occurs(f, RemoveFirst(timers, f))
      /\ \A x : x # f => (Occurs(x, RemoveFirst(timers, f)) <=> Occurs(x, timers))
  BY <1>1, RemoveTimer
<1>3. timers' = Append(RemoveFirst(timers, f), f)
  BY DEF RefreshTimer
<1>4. \A x : Occurs(x, timers') <=> x = f \/ Occurs(x, RemoveFirst(timers, f))
  BY <1>2, <1>3, AppendOccurs
<1>5. QED
  BY <1>2, <1>4

(* tick takes the timer of the head only.                                   *)
LEMMA TickOccurs ==
  ASSUME TypeOK, timers # <<>>, timers' = Tail(timers)
  PROVE  \A g \in Fds : g # Head(timers) /\ Occurs(g, timers) => Occurs(g, timers')
<1>1. timers \in Seq(Fds) /\ Injective(timers)
  BY DEF TypeOK, Injective
<1>2. QED
  BY <1>1, TailOccurs

LEMMA TimedMain == Fine /\ Timed /\ MainStep => Timed'
<1> SUFFICES ASSUME Fine, Timed, MainStep PROVE Timed'
  OBVIOUS
<1>0. TypeOK
  BY DEF Fine
<1>1. CASE EpollWait \/ TickEnd \/ Accept \/ AcceptFails \/ DispatchIgnored \/ DispatchTask
           \/ DispatchRead \/ MainRead \/ DispatchEnd \/ ShutdownJoin
  <2>1. UNCHANGED <<m_users, m_is_closed, timers>> /\ mpc \notin {"accepted", "installed"}
    BY <1>1 DEF EpollWait, TickEnd, Accept, AcceptFails, DispatchIgnored, DispatchTask,
                DispatchRead, MainRead, DispatchEnd, ShutdownJoin, conn
  <2>2. QED
    BY <1>0, <2>1, TimedStays
<1>2. CASE TickErase \/ MainErase
  <2>1. UNCHANGED <<m_is_closed, timers>> /\ mpc \notin {"accepted", "installed"}
    BY <1>2 DEF TickErase, MainErase, conn
  <2>2. \A f \in Fds : m_users'[f] \in {m_users[f], None}
    BY <1>0, <1>2 DEF TickErase, MainErase, TypeOK
  <2>3. QED
    BY <1>0, <2>1, <2>2, TimedStays
<1>3. CASE TickSkip
  <2>1. /\ UNCHANGED <<m_users, m_is_closed>> /\ mpc = "tick"
        /\ timers # <<>> /\ timers' = Tail(timers) /\ ~Closable(Head(timers))
    BY <1>3 DEF TickSkip, conn
  <2>2. \A f \in Fds : Closable(f)' => f # Head(timers)
    BY <2>1 DEF Closable
  <2>3. QED
    BY <1>0, <2>1, <2>2, TickOccurs, TimedStays
<1>4. CASE TickClose
  <2>1. /\ m_users' = m_users /\ mpc = "tickclose" /\ timers' = Tail(timers)
        /\ timers # <<>> /\ Head(timers) = mfd
    BY <1>4 DEF TickClose, Fine, Threads
  <2>2. \A c \in Conns : m_is_closed[c] => m_is_closed'[c]
    BY <1>4, CloseKeeps DEF TickClose
  <2>3. mfd \in Fds
    BY <2>1 DEF Fine, Threads, TypeOK
  <2>4. FdOK(mfd)
    BY <2>3 DEF Fine, Sound
  <2>5. m_users[mfd] = None
    BY <2>1, <2>4 DEF FdOK, Free, InUse, MainOf
  <2>6. \A f \in Fds : Closable(f)' => f # Head(timers)
    BY <2>1, <2>5 DEF Closable
  <2>7. QED
    BY <1>0, <2>1, <2>2, <2>6, TickOccurs, TimedStays
<1>5. CASE MainClose
  <2>1. UNCHANGED <<m_users, timers>> /\ mpc = "close"
    BY <1>5 DEF MainClose
  <2>2. \A c \in Conns : m_is_closed[c] => m_is_closed'[c]
    BY <1>5, CloseKeeps DEF MainClose
  <2>3. QED
    BY <1>0, <2>1, <2>2, TimedStays
<1>6. CASE Shutdown
  <2>1. /\ timers' = timers /\ mpc = "dispatch" /\ m_users' = [f \in Fds |-> None]
    BY <1>6 DEF Shutdown
  <2>2. QED
    BY <2>1 DEF Timed, Closable
<1>7. CASE InstallConn
  <2>1. PICK C : CloseConns(C, {}, C)
    BY <1>7 DEF InstallConn
  <2>2. \A c \in Conns : m_is_closed[c] => m_is_closed'[c]
    BY <2>1, CloseKeeps
  <2>3. /\ timers' = timers /\ mpc' = "installed" /\ mfd' = mfd /\ mpc = "accepted"
        /\ m_users' = [m_users EXCEPT ![mfd] = mconn]
    BY <1>7 DEF InstallConn
  <2>4. ASSUME NEW f \in Fds, Closable(f)', ~Installing(f)'
        PROVE  Occurs(f, timers')
    <3>1. f # mfd
      BY <2>3, <2>4 DEF Installing
    <3>2. m_users'[f] = m_users[f]
      BY <1>0, <2>3, <3>1 DEF TypeOK
    <3>3. m_users[f] # None /\ m_users[f] \in Conns /\ ~m_is_closed'[m_users[f]]
      BY <1>0, <2>4, <3>2 DEF Closable, TypeOK
    <3>4. Closable(f) /\ ~Installing(f)
      BY <2>2, <3>1, <3>3 DEF Closable, Installing
    <3>5. QED
      BY <2>3, <3>4 DEF Timed
  <2>5. QED
    BY <2>4 DEF Timed
<1>8. CASE InitConn
  <2>1. PICK f \in Fds, c \in Conns : f = mfd /\ c = mconn
    BY <1>8 DEF Fine, TypeOK, Threads, InitConn
  <2>2. /\ m_users' = m_users /\ RefreshTimer(f) /\ mpc = "installed"
        /\ m_is_closed' = [m_is_closed EXCEPT ![c] = FALSE]
    BY <1>8, <2>1 DEF InitConn, HttpInit
  <2>3. ~m_is_closed[c]
    <3>1. FdOK(f)
      BY DEF Fine, Sound
    <3>2. owner[f] # None /\ InUse(f, owner[f])
      BY <2>1, <3>1 DEF FdOK, Free
    <3>3. QED
      BY <2>1, <2>2, <3>2 DEF InUse, MainOf
  <2>4. \A d \in Conns : m_is_closed[d] => m_is_closed'[d]
    BY <1>0, <2>2, <2>3 DEF TypeOK
  <2>5. Occurs(f, timers') /\ \A g \in Fds : Occurs(g, timers) => Occurs(g, timers')
    BY <1>0, <2>2, RefreshOccurs
  <2>6. ASSUME NEW g \in Fds, Closable(g)', g # f
        PROVE  Occurs(g, timers')
    <3>1. m_users[g] # None /\ m_users[g] \in Conns /\ ~m_is_closed'[m_users[g]]
      BY <1>0, <2>2, <2>6 DEF Closable, TypeOK
    <3>2. Closable(g) /\ ~Installing(g)
      BY <2>1, <2>4, <2>6, <3>1 DEF Closable, Installing
    <3>3. QED
      BY <2>5, <3>2 DEF Timed
  <2>7. QED
    BY <2>5, <2>6 DEF Timed
<1>9. QED
  BY <1>1, <1>2, <1>3, <1>4, <1>5, <1>6, <1>7, <1>8 DEF MainStep

LEMMA TimedWorker ==
  ASSUME Fine, Timed, NEW w \in Workers, WorkerStep(w)
  PROVE  Timed'
<1>0. TypeOK /\ UNCHANGED <<mpc, mfd>>
  BY DEF Fine, WorkerStep, WorkerTake, WorkerExit, WorkerRead, WorkerProcessed, WorkerUnprocessed,
         WorkerProcessFails, WorkerCallback, WorkerModOut, WorkerModIn, WorkerCheck,
         WorkerRefresh, WorkerWriteOK, WorkerWriteAgain, WorkerWriteError, WorkerInit,
         WorkerErase, WorkerClose, WorkerDone, loop
<1>1. CASE \/ WorkerTake(w) \/ WorkerExit(w) \/ WorkerRead(w) \/ WorkerProcessed(w)
           \/ WorkerUnprocessed(w) \/ WorkerCallback(w) \/ WorkerModOut(w) \/ WorkerModIn(w)
           \/ WorkerCheck(w) \/ WorkerWriteOK(w) \/ WorkerWriteAgain(w) \/ WorkerWriteError(w)
  <2>1. UNCHANGED <<m_users, m_is_closed, timers>>
    BY <1>1 DEF WorkerTake, WorkerExit, WorkerRead, WorkerProcessed, WorkerUnprocessed,
                WorkerCallback, WorkerModOut, WorkerModIn, WorkerCheck, WorkerWriteOK,
                WorkerWriteAgain, WorkerWriteError, conn
  <2>2. QED
    BY <1>0, <2>1, TimedStays
<1>2. CASE WorkerProcessFails(w) \/ WorkerClose(w) \/ WorkerDone(w)
  <2>1. UNCHANGED <<m_users, timers>>
    BY <1>2 DEF WorkerProcessFails, WorkerClose, WorkerDone
  <2>2. \A c \in Conns : m_is_closed[c] => m_is_closed'[c]
    BY <1>2, CloseKeeps DEF WorkerProcessFails, WorkerClose, WorkerDone
  <2>3. QED
    BY <1>0, <2>1, <2>2, TimedStays
<1>3. CASE WorkerRefresh(w)
  <2>1. job[w].fd \in Fds
    BY <1>3, LiveWorker DEF WorkerRefresh
  <2>2. UNCHANGED <<m_users, m_is_closed>> /\ RefreshTimer(job[w].fd)
    BY <1>3 DEF WorkerRefresh, conn
  <2>3. \A g \in Fds : Occurs(g, timers) => Occurs(g, timers')
    BY <1>0, <2>1, <2>2, RefreshOccurs
  <2>4. QED
    BY <1>0, <2>2, <2>3, TimedStays
<1>4. CASE WorkerErase(w)
  <2>1. UNCHANGED <<m_is_closed, timers>>
    BY <1>4 DEF WorkerErase, conn
  <2>2. \A f \in Fds : m_users'[f] \in {m_users[f], None}
    BY <1>0, <1>4 DEF WorkerErase, TypeOK
  <2>3. QED
    BY <1>0, <2>1, <2>2, TimedStays
<1>5. CASE WorkerInit(w)
  <2>1. job[w].conn \in Conns /\ ~m_is_closed[job[w].conn]
    BY <1>5, LiveWorker DEF WorkerInit, Final
  <2>2. UNCHANGED <<m_users, timers>> /\ m_is_closed' = [m_is_closed EXCEPT ![job[w].conn] = FALSE]
    BY <1>5 DEF WorkerInit, HttpInit
  <2>3. \A c \in Conns : m_is_closed[c] => m_is_closed'[c]
    BY <1>0, <2>1, <2>2 DEF TypeOK
  <2>4. QED
    BY <1>0, <2>2, <2>3, TimedStays
<1>6. QED
  BY <1>1, <1>2, <1>3, <1>4, <1>5 DEF WorkerStep

LEMMA TimedStep == Fine /\ Timed /\ [Next]_vars => Timed'
<1> SUFFICES ASSUME Fine, Timed, [Next]_vars PROVE Timed'
  OBVIOUS
<1>0. TypeOK
  BY DEF Fine
<1>1. ASSUME \/ \E c \in Conns : Connect(c) \/ Send(c) \/ ClientClose(c)
             \/ Signal \/ UNCHANGED vars
      PROVE  Timed'
  <2>1. /\ UNCHANGED <<m_users, m_is_closed, timers, mfd>>
        /\ mpc \notin {"accepted", "installed"} \/ mpc' = mpc
    BY <1>1 DEF Connect, Send, ClientClose, Signal, vars, conn, loop
  <2>2. QED
    BY <1>0, <2>1, TimedStays
<1>2. CASE MainStep
  BY <1>2, TimedMain
<1>3. ASSUME NEW w \in Workers, WorkerStep(w)
      PROVE  Timed'
  BY <1>3, TimedWorker
<1>4. QED
  BY <1>1, <1>2, <1>3 DEF Next

(* Every connection that can still be closed has a live timer, so the     *)
(* tick of net_server.cpp can time it out: until a connection is closed   *)
(* under a running closure, or its number is given out while a closure    *)
(* has yet to re-arm it, with any number of clients, descriptors and      *)
(* workers.                                                               *)
THEOREM TimersCover == Spec => []TimerCoverage
<1> DEFINE Covered == ~raced => Timed
<1>1. Init => Covered
  BY DEF Init, Timed, Closable
<1>2. Covered /\ Agreed /\ (TypeOK /\ Threads) /\ [Next]_vars => Covered'
  BY RacedStays, TimedStep DEF Agreed, Fine
<1>3. Covered => TimerCoverage
  BY DEF TimerCoverage, Timed, Occurs
<1>4. QED
  BY <1>1, <1>2, <1>3, AgreedAlways, TypesAlways, PTL DEF Spec
==============================================================================
