--------------------------- MODULE HttpConnProofs ---------------------------
(***************************************************************************)
(* What holds of every connection of module HttpConn, whatever requests    *)
(* the client sends, however they are cut into reads, and whatever the     *)
(* sizes, limits and times are.                                            *)
(***************************************************************************)
EXTENDS HttpConn, SequenceTheorems, TLAPS

-----------------------------------------------------------------------------
(* The rate limiter.                                                       *)

LimitsOK ==
  /\ DOMAIN m_limit = Types /\ DOMAIN accepted = Types
  /\ \A t \in Types :
       m_limit[t] = None \/ m_limit[t] \in [age : 0..Window[t], count : Nat \ {0}]
  /\ \A t \in Types : accepted[t] \in [Ages(t) -> Nat]

(* Of an access within the last age ticks only those after the one that    *)
(* began the window can be younger than the window; of the older ones, the *)
(* window before let fewer than max_count through.                         *)
Counted == \A t \in Types :
  /\ m_limit[t] = None => \A a \in Ages(t) : accepted[t][a] = 0
  /\ m_limit[t] # None =>
       /\ m_limit[t].count <= MaxCount[t]
       /\ \A a \in Ages(t) :
            IF a < m_limit[t].age THEN accepted[t][a] <= m_limit[t].count - 1
            ELSE accepted[t][a] <= m_limit[t].count - 1 + MaxCount[t]

LEMMA LimitConstants ==
  ASSUME NEW t \in Types
  PROVE  MaxCount[t] \in Nat \ {0} /\ Window[t] \in Nat \ {0}
BY LimitsPositive

LEMMA CountAccessKeeps ==
  ASSUME LimitsOK, Counted, NEW type \in Types, CountAccess(type)
  PROVE  LimitsOK' /\ Counted'
<1>1. CASE IsLimit(type)
  <2>1. m_limit' = m_limit /\ accepted' = accepted
    BY <1>1 DEF CountAccess
  <2> QED
    BY <2>1 DEF LimitsOK, Counted
<1>2. CASE ~IsLimit(type)
  <2> PICK e : e = m_limit[type]
    OBVIOUS
  <2> PICK max \in Nat \ {0} : max = MaxCount[type]
    BY LimitConstants
  <2> PICK w \in Nat \ {0} : w = Window[type]
    BY LimitConstants
  <2> DEFINE fresh == e = None \/ (e # None /\ e.age >= w)
  <2>1. PICK d : d = IF fresh THEN [age |-> 0, count |-> 1]
                     ELSE [age |-> e.age, count |-> e.count + 1]
    OBVIOUS
  <2>2. /\ m_limit' = [m_limit EXCEPT ![type] = d]
        /\ accepted' = [accepted EXCEPT ![type] = [a \in Ages(type) |-> accepted[type][a] + 1]]
    BY <1>2, <2>1 DEF CountAccess
  <2>3. /\ DOMAIN m_limit' = Types /\ DOMAIN accepted' = Types
        /\ m_limit'[type] = d
        /\ accepted'[type] = [a \in Ages(type) |-> accepted[type][a] + 1]
        /\ \A t \in Types \ {type} : m_limit'[t] = m_limit[t] /\ accepted'[t] = accepted[t]
    BY <2>2 DEF LimitsOK
  <2>4. e = None \/ (e.age \in 0..w /\ e.count \in Nat \ {0} /\ e.count <= max)
    BY DEF LimitsOK, Counted
  <2>5. ~fresh => e.count < max
    BY <1>2, <2>4 DEF IsLimit
  <2>6. d \in [age : 0..w, count : Nat \ {0}] /\ d.count <= max
    BY <2>1, <2>4, <2>5
  <2>7. d # None
    BY <2>6, NoneIsNoWindow
  <2>8. accepted[type] \in [Ages(type) -> Nat]
    BY DEF LimitsOK
  <2>9. accepted'[type] \in [Ages(type) -> Nat]
    BY <2>3, <2>8
  <2>10. LimitsOK'
    <3>1. \A t \in Types : m_limit'[t] = None \/ m_limit'[t] \in [age : 0..Window[t], count : Nat \ {0}]
      BY <2>3, <2>6 DEF LimitsOK
    <3>2. \A t \in Types : accepted'[t] \in [Ages(t) -> Nat]
      BY <2>3, <2>9 DEF LimitsOK
    <3> QED
      BY <2>3, <3>1, <3>2 DEF LimitsOK, Ages
  <2>11. ASSUME NEW a \in Ages(type)
         PROVE  IF a < d.age THEN accepted'[type][a] <= d.count - 1
                ELSE accepted'[type][a] <= d.count - 1 + max
    <3>1. a \in Nat /\ a < w
      BY DEF Ages
    <3>2. PICK x \in Nat : x = accepted[type][a]
      BY <2>8
    <3>3. accepted'[type][a] = x + 1
      BY <2>3, <3>2
    <3>4. CASE e = None
      <4>1. x = 0
        BY <3>2, <3>4 DEF Counted
      <4>2. d.age = 0 /\ d.count = 1
        BY <2>1, <3>4
      <4> QED
        BY <3>1, <3>3, <4>1, <4>2
    <3>5. CASE e # None /\ e.age >= w
      <4>1. x <= e.count - 1
        BY <3>1, <3>2, <3>5, <2>4 DEF Counted
      <4>2. d.age = 0 /\ d.count = 1
        BY <2>1, <3>5
      <4> QED
        BY <3>1, <3>3, <4>1, <4>2, <2>4, <3>5
    <3>6. CASE e # None /\ ~(e.age >= w)
      <4>1. IF a < e.age THEN x <= e.count - 1 ELSE x <= e.count - 1 + max
        BY <3>2, <3>6 DEF Counted
      <4>2. d.age = e.age /\ d.count = e.count + 1
        BY <2>1, <3>6
      <4> QED
        BY <3>1, <3>3, <4>1, <4>2, <2>4, <3>6
    <3> QED
      BY <3>4, <3>5, <3>6
  <2>12. Counted'
    <3> SUFFICES ASSUME NEW t \in Types
                 PROVE  /\ m_limit'[t] = None => \A a \in Ages(t) : accepted'[t][a] = 0
                        /\ m_limit'[t] # None =>
                             /\ m_limit'[t].count <= MaxCount[t]
                             /\ \A a \in Ages(t) :
                                  IF a < m_limit'[t].age THEN accepted'[t][a] <= m_limit'[t].count - 1
                                  ELSE accepted'[t][a] <= m_limit'[t].count - 1 + MaxCount[t]
      BY DEF Counted, Ages
    <3>1. CASE t = type
      BY <3>1, <2>3, <2>6, <2>7, <2>11
    <3>2. CASE t # type
      BY <3>2, <2>3 DEF Counted
    <3> QED
      BY <3>1, <3>2
  <2> QED
    BY <2>10, <2>12
<1> QED
  BY <1>1, <1>2

LEMMA TickKeeps ==
  ASSUME LimitsOK, Counted, Tick
  PROVE  LimitsOK' /\ Counted'
<1>1. ASSUME NEW t \in Types
      PROVE  /\ m_limit'[t] = None \/ m_limit'[t] \in [age : 0..Window[t], count : Nat \ {0}]
             /\ accepted'[t] \in [Ages(t) -> Nat]
             /\ m_limit'[t] = None => \A a \in Ages(t) : accepted'[t][a] = 0
             /\ m_limit'[t] # None =>
                  /\ m_limit'[t].count <= MaxCount[t]
                  /\ \A a \in Ages(t) :
                       IF a < m_limit'[t].age THEN accepted'[t][a] <= m_limit'[t].count - 1
                       ELSE accepted'[t][a] <= m_limit'[t].count - 1 + MaxCount[t]
  <2> PICK e : e = m_limit[t]
    OBVIOUS
  <2> PICK d : d = m_limit'[t]
    OBVIOUS
  <2> PICK max \in Nat \ {0} : max = MaxCount[t]
    BY LimitConstants
  <2> PICK w \in Nat \ {0} : w = Window[t]
    BY LimitConstants
  <2>1. d = IF e = None \/ (e # None /\ e.age >= w) THEN e
            ELSE [age |-> e.age + 1, count |-> e.count]
    BY DEF Tick
  <2>2. accepted'[t] = [a \in Ages(t) |-> IF a = 0 THEN 0 ELSE accepted[t][a - 1]]
    BY DEF Tick
  <2>3. e = None \/ (e \in [age : 0..w, count : Nat \ {0}] /\ e.count <= max)
    BY DEF LimitsOK, Counted
  <2>4. accepted[t] \in [Ages(t) -> Nat]
    BY DEF LimitsOK
  <2>5. accepted'[t] \in [Ages(t) -> Nat]
    BY <2>2, <2>4 DEF Ages
  <2>6. CASE e = None
    <3>1. d = None
      BY <2>1, <2>6
    <3>2. ASSUME NEW a \in Ages(t)
          PROVE  accepted'[t][a] = 0
      <4>1. a = 0 \/ a - 1 \in Ages(t)
        BY DEF Ages
      <4>2. \A b \in Ages(t) : accepted[t][b] = 0
        BY <2>6 DEF Counted
      <4> QED
        BY <4>1, <4>2, <2>2
    <3> QED
      BY <3>1, <3>2, <2>5
  <2>7. CASE e # None
    <3>1. d \in [age : 0..w, count : Nat \ {0}] /\ d.count = e.count /\ d.count <= max
      BY <2>1, <2>3, <2>7
    <3>2. ASSUME NEW a \in Ages(t)
          PROVE  IF a < d.age THEN accepted'[t][a] <= d.count - 1
                 ELSE accepted'[t][a] <= d.count - 1 + max
      <4>1. a \in Nat /\ a < w
        BY DEF Ages
      <4>2. CASE a = 0
        BY <4>2, <2>2, <3>1
      <4>3. CASE a # 0
        <5>1. a - 1 \in Ages(t)
          BY <4>1, <4>3 DEF Ages
        <5>2. PICK x \in Nat : x = accepted[t][a - 1]
          BY <5>1, <2>4
        <5>3. accepted'[t][a] = x
          BY <2>2, <4>3, <5>2
        <5>4. IF a - 1 < e.age THEN x <= e.count - 1 ELSE x <= e.count - 1 + max
          BY <5>1, <5>2, <2>7 DEF Counted
        <5>5. d.age = IF e.age >= w THEN e.age ELSE e.age + 1
          BY <2>1, <2>7, <2>3
        <5> QED
          BY <4>1, <5>3, <5>4, <5>5, <3>1, <2>3, <2>7
      <4> QED
        BY <4>2, <4>3
    <3>3. d # None
      BY <3>1, NoneIsNoWindow
    <3> QED
      BY <3>1, <3>2, <3>3, <2>5
  <2> QED
    BY <2>6, <2>7
<1>2. DOMAIN m_limit' = Types /\ DOMAIN accepted' = Types
  BY DEF Tick
<1> QED
  BY <1>1, <1>2 DEF LimitsOK, Counted, Ages

(* The actions that look at the limiter, and those that do not.            *)
LEMMA LimitSteps ==
  ASSUME Next
  PROVE  \/ UNCHANGED <<m_limit, accepted>>
         \/ Tick
         \/ \E type \in Types : CountAccess(type)
<1> USE DEF access, Close, GoTo
<1>1. CASE \E r \in Requests : Send(r)
  BY <1>1 DEF Send
<1>2. CASE \E n \in 1..Len(wire) : Read(n)
  BY <1>2 DEF Read
<1>3. CASE ReadFails \/ ParseRequestLine \/ ParseHeader \/ ParseBody \/ ParseDone
  BY <1>3 DEF ReadFails, ParseRequestLine, ParseHeader, ParseBody, ParseDone
<1>4. CASE Process
  BY <1>4 DEF Process, Types
<1>5. CASE HandleRequest \/ AuthValid \/ AuthExpired \/ AuthName \/ RouteDenied \/ RouteJson \/ RoutePage \/ RouteNotFound
  BY <1>5 DEF HandleRequest, AuthValid, AuthExpired, AuthName, RouteDenied, RouteJson, RoutePage, RouteNotFound
<1>6. CASE RouteLogin
  BY <1>6 DEF RouteLogin, Types
<1>7. CASE RespondBuilt \/ RespondFile \/ RespondFails \/ Finish
  BY <1>7 DEF RespondBuilt, RespondFile, RespondFails, Finish
<1>8. CASE \E r \in Results, h \in 0..HeaderUnits, f \in 0..FileSize :
             Write(r, h, f) \/ WriteAgain(r, h, f)
  <2> PICK r \in Results, h \in 0..HeaderUnits, f \in 0..FileSize :
             Write(r, h, f) \/ WriteAgain(r, h, f)
    BY <1>8
  <2>1. Sending(r, h, f) \/ Close
    BY DEF Write, WriteAgain
  <2> QED
    BY <2>1 DEF Sending
<1>9. CASE Elsewhere
  BY <1>9, LimitsPositive DEF Elsewhere, OtherAccess
<1> QED
  BY <1>1, <1>2, <1>3, <1>4, <1>5, <1>6, <1>7, <1>8, <1>9 DEF Next

LEMMA LimitsStep ==
  ASSUME LimitsOK, Counted, [Next]_vars
  PROVE  LimitsOK' /\ Counted'
<1>1. CASE UNCHANGED <<m_limit, accepted>>
  BY <1>1 DEF LimitsOK, Counted, Ages
<1>2. CASE Tick
  BY <1>2, TickKeeps
<1>3. CASE \E type \in Types : CountAccess(type)
  BY <1>3, CountAccessKeeps
<1> QED
  BY <1>1, <1>2, <1>3, LimitSteps DEF vars, access

LEMMA LimitsInit == Init => LimitsOK /\ Counted
<1> SUFFICES ASSUME Init PROVE LimitsOK /\ Counted
  OBVIOUS
<1>1. m_limit = [t \in Types |-> None] /\ accepted = [t \in Types |-> [a \in Ages(t) |-> 0]]
  BY DEF Init, AccessInit
<1> QED
  BY <1>1 DEF LimitsOK, Counted

(* RateLimiter::isLimit, the fixed window of src/README.md:167 and not    *)
(* the sliding one of :48: however this connection and the others of its  *)
(* address use the limiter, in any window_sec fewer than 2 * max_count of *)
(* their accesses are let through, for every max_count and window_sec.    *)
THEOREM WindowIsBounded == Spec => []WindowBound
<1>1. Init => LimitsOK /\ Counted
  BY LimitsInit
<1>2. LimitsOK /\ Counted /\ [Next]_vars => LimitsOK' /\ Counted'
  BY LimitsStep
<1>3. LimitsOK /\ Counted => WindowBound
  <2> SUFFICES ASSUME LimitsOK, Counted, NEW t \in Types
               PROVE  accepted[t][Window[t] - 1] < 2 * MaxCount[t]
    BY DEF WindowBound
  <2> PICK max \in Nat \ {0} : max = MaxCount[t]
    BY LimitConstants
  <2> PICK a : a = Window[t] - 1
    OBVIOUS
  <2>1. a \in Ages(t)
    BY LimitConstants DEF Ages
  <2>2. PICK x \in Nat : x = accepted[t][a]
    BY <2>1 DEF LimitsOK
  <2>3. CASE m_limit[t] = None
    BY <2>1, <2>2, <2>3 DEF Counted
  <2>4. CASE m_limit[t] # None
    <3>1. PICK c \in Nat : c = m_limit[t].count
      BY <2>4 DEF LimitsOK
    <3>2. c <= max /\ (x <= c - 1 \/ x <= c - 1 + max)
      BY <2>1, <2>2, <2>4, <3>1 DEF Counted
    <3> QED
      BY <2>2, <3>2
  <2> QED
    BY <2>3, <2>4
<1> QED
  BY <1>1, <1>2, <1>3, PTL DEF Spec

-----------------------------------------------------------------------------
(* The input side: what the buffer, the socket and the lines parsed have   *)
(* to do with the request that was sent.                                   *)

(* Between requests nothing is left, unless an answer cut a request.       *)
Idle ==
  (cur = None /\ ~cut) =>
    /\ phase \in {"in", "closed"}
    /\ wire = <<>> /\ m_read_idx = 0 /\ m_read_buf = EmptyBuf
    /\ m_parse_state = "REQUEST_LINE"

(* Before the request line HttpBase is new, and the buffer as init left it *)
(* behind what was received.                                               *)
Fresh ==
  m_parse_state = "REQUEST_LINE" =>
    /\ m_http_base = NoBase /\ ~ragged
    /\ \A i \in 1..BufSize : i > m_read_idx => m_read_buf[i] = NUL

(* What is parsed is the request that was sent last, unless one was cut.   *)
Mine ==
  m_parse_state # "REQUEST_LINE" =>
    m_http_base.req \in Readable /\ (~cut => m_http_base.req = cur)

(* Only a parsed request is handled.                                       *)
Handling ==
  phase \in {"handle", "valid", "expired", "name", "route", "respond"} => m_parse_state = "DONE"

Plain == cur # None /\ ~cut /\ ~ragged

(* The units of the request that the parser is through with.               *)
Consumed ==
  CASE m_parse_state = "REQUEST_LINE" -> 0
    [] m_parse_state = "HEADERS" -> 3 * Len(m_http_base.lines)
    [] m_parse_state = "BODY" -> 3 * Len(m_http_base.lines) + 1
    [] m_parse_state = "DONE" -> Len(Encode(cur))

(* What is in the buffer and in the socket is the rest of the request.     *)
Stream ==
  Plain =>
    /\ Len(wire) = Len(Encode(cur)) - Consumed - m_read_idx
    /\ \A i \in 1..m_read_idx : m_read_buf[i] = Encode(cur)[Consumed + i]
    /\ \A i \in 1..Len(wire) : wire[i] = Encode(cur)[Consumed + m_read_idx + i]

(* What was parsed is what was sent.                                       *)
Parsed ==
  Plain =>
    /\ m_parse_state = "HEADERS" =>
         /\ Len(m_http_base.lines) \in 1..Len(Lines(cur))
         /\ \A i \in 1..Len(m_http_base.lines) : m_http_base.lines[i] = Lines(cur)[i]
    /\ m_parse_state \in {"BODY", "DONE"} => m_http_base.lines = Lines(cur)
    /\ m_parse_state = "DONE" => m_http_base.body = (IF HasBody(cur) THEN Body ELSE <<>>)

(* In the headers strstr stops at what was received: removeLine has put a  *)
(* NUL behind it, or it holds a CRLF.                                      *)
Delimited ==
  (m_parse_state = "HEADERS" /\ ~ragged) =>
    \/ m_read_idx = BufSize
    \/ m_read_buf[m_read_idx + 1] = NUL
    \/ \E i \in 1..m_read_idx : m_read_buf[i] = CRLF

(* Whoever waits for input waits for units that were not received.         *)
Waiting ==
  (Plain /\ phase = "in") =>
    /\ m_parse_state = "REQUEST_LINE" => ~cur.wellFormed \/ m_read_idx < 3
    /\ m_parse_state = "HEADERS" =>
         m_read_idx < (IF Len(m_http_base.lines) < Len(Lines(cur)) THEN 3 ELSE 1)
    /\ m_parse_state = "BODY" => m_read_idx < ContentLength
    /\ m_parse_state = "DONE" => cur.big

-----------------------------------------------------------------------------
(* What the client sends.                                                  *)

LEMMA Thirds ==
  ASSUME NEW j \in Int
  PROVE  /\ (3 * j) % 3 = 0
         /\ (3 * j - 1) % 3 = 2 /\ (3 * j - 1 + 2) \div 3 = j
         /\ (3 * j - 2) % 3 = 1 /\ (3 * j - 2 + 2) \div 3 = j
OBVIOUS

Third(i) == (i + 2) \div 3

LEMMA ThirdsOf ==
  ASSUME NEW i \in Nat, i >= 1
  PROVE  /\ Third(i) \in Nat /\ Third(i) >= 1
         /\ i = 3 * Third(i) \/ i = 3 * Third(i) - 1 \/ i = 3 * Third(i) - 2
<1> PICK j \in Int : j = (i + 2) \div 3 /\ (i + 2 = 3 * j \/ i + 2 = 3 * j + 1 \/ i + 2 = 3 * j + 2)
  OBVIOUS
<1> QED
  BY DEF Third

LEMMA Joined ==
  ASSUME NEW S, NEW a \in Seq(S), NEW b \in Seq(S), NEW u, u = a \o b
  PROVE  /\ u \in Seq(S) /\ Len(u) = Len(a) + Len(b)
         /\ \A i \in 1..Len(a) : u[i] = a[i]
         /\ \A i \in 1..Len(b) : u[Len(a) + i] = b[i]
OBVIOUS

LEMMA Appended ==
  ASSUME NEW S, NEW s \in Seq(S), NEW x \in S, NEW u, u = Append(s, x)
  PROVE  /\ u \in Seq(S) /\ Len(u) = Len(s) + 1 /\ u[Len(s) + 1] = x
         /\ \A i \in 1..Len(s) : u[i] = s[i]
OBVIOUS

LEMMA TextShape ==
  ASSUME NEW h
  PROVE  /\ Len(Text(h)) = 2 /\ Text(h)[1] = <<h, 1>> /\ Text(h)[2] = <<h, 2>>
         /\ Text(h) # <<>>
         /\ h \in HeaderNames \cup {"line", "body"} => Text(h) \in Seq(Units)
         /\ \A g : Text(g) = Text(h) => g = h
BY DEF Text, Units

LEMMA LinesShape ==
  ASSUME NEW r \in Requests
  PROVE  /\ r.headers \in Seq(HeaderNames)
         /\ Lines(r) \in Seq(Seq(Units)) /\ Len(Lines(r)) = Len(r.headers) + 1
         /\ Lines(r)[1] = Text("line")
         /\ \A j \in 2..Len(Lines(r)) : Lines(r)[j] = Text(r.headers[j - 1])
<1>1. r.headers \in Seq(HeaderNames)
  BY RequestsWellFormed DEF Request, Readable
<1>2. PICK q \in Seq(HeaderNames) : q = r.headers
  BY <1>1
<1>10. PICK t : t = [i \in DOMAIN q |-> Text(q[i])]
  OBVIOUS
<1>3. t \in Seq(Seq(Units)) /\ Len(t) = Len(q) /\ \A i \in 1..Len(q) : t[i] = Text(q[i])
  <2>1. \A i \in 1..Len(q) : Text(q[i]) \in Seq(Units)
    BY TextShape
  <2> QED
    BY <1>10, <2>1
<1>11. PICK l : l = <<Text("line")>>
  OBVIOUS
<1>4. l \in Seq(Seq(Units)) /\ Len(l) = 1 /\ l[1] = Text("line")
  BY <1>11, TextShape
<1>5. PICK u : u = l \o t
  OBVIOUS
<1>6. u = Lines(r)
  BY <1>2, <1>10, <1>11, <1>5 DEF Lines
<1>7. /\ u \in Seq(Seq(Units)) /\ Len(u) = Len(l) + Len(t)
      /\ \A i \in 1..Len(l) : u[i] = l[i]
      /\ \A i \in 1..Len(t) : u[Len(l) + i] = t[i]
  <2>1. l \in Seq(Seq(Units)) /\ t \in Seq(Seq(Units))
    BY <1>3, <1>4
  <2> QED
    BY <2>1, <1>5, Joined
<1>12. PICK k \in Nat : k = Len(q)
  OBVIOUS
<1>8. k = Len(q) /\ Len(t) = k /\ Len(u) = k + 1 /\ u[1] = Text("line")
  BY <1>12, <1>3, <1>4, <1>7
<1>9. ASSUME NEW j \in 2..Len(u)
      PROVE  u[j] = Text(q[j - 1])
  <2>1. PICK i \in 1..k : i = j - 1 /\ 1 + i = j
    BY <1>8
  <2>2. u[1 + i] = t[i]
    BY <1>4, <1>7, <1>8
  <2>3. t[i] = Text(q[i])
    BY <1>3, <1>8
  <2> QED
    BY <2>1, <2>2, <2>3
<1> QED
  BY <1>1, <1>2, <1>6, <1>7, <1>8, <1>9

LEMMA LineShape ==
  ASSUME NEW r \in Requests, NEW j \in 1..Len(Lines(r))
  PROVE  \E h \in HeaderNames \cup {"line"} : Lines(r)[j] = Text(h) /\ (j # 1 => h # "line")
<1>1. CASE j = 1
  BY <1>1, LinesShape
<1>2. CASE j # 1
  <2>1. j \in 2..Len(Lines(r)) /\ j - 1 \in 1..Len(r.headers)
    BY <1>2, LinesShape
  <2>2. r.headers[j - 1] \in HeaderNames
    BY <2>1, LinesShape
  <2> QED
    BY <2>1, <2>2, LinesShape DEF HeaderNames
<1> QED
  BY <1>1, <1>2

BodyLen(r) == IF HasBody(r) THEN 2 ELSE 0

LEMMA EncodeShape ==
  ASSUME NEW r \in Requests
  PROVE  /\ Encode(r) \in Seq(Units)
         /\ Len(Encode(r)) = 3 * Len(Lines(r)) + 1 + BodyLen(r)
         /\ \A j \in 1..Len(Lines(r)) :
              /\ Encode(r)[3 * j - 2] = Lines(r)[j][1]
              /\ Encode(r)[3 * j - 1] = Lines(r)[j][2]
              /\ Encode(r)[3 * j] = CRLF
         /\ Encode(r)[3 * Len(Lines(r)) + 1] = CRLF
         /\ HasBody(r) => /\ Encode(r)[3 * Len(Lines(r)) + 2] = <<"body", 1>>
                          /\ Encode(r)[3 * Len(Lines(r)) + 3] = <<"body", 2>>
<1>1. PICK s \in Seq(Seq(Units)), n \in Nat : s = Lines(r) /\ n = Len(s)
  BY LinesShape
<1>2. PICK a : a = [i \in 1..3 * n |-> IF i % 3 = 0 THEN CRLF ELSE s[(i + 2) \div 3][i % 3]]
  OBVIOUS
<1>3. ASSUME NEW j \in 1..n
      PROVE  /\ a[3 * j - 2] = s[j][1] /\ a[3 * j - 1] = s[j][2] /\ a[3 * j] = CRLF
             /\ s[j][1] \in Units /\ s[j][2] \in Units
  <2>1. 3 * j - 2 \in 1..3 * n /\ 3 * j - 1 \in 1..3 * n /\ 3 * j \in 1..3 * n
    OBVIOUS
  <2>2. a[3 * j] = CRLF
    BY <1>2, <2>1, Thirds
  <2>3. a[3 * j - 1] = s[j][2]
    BY <1>2, <2>1, Thirds
  <2>4. a[3 * j - 2] = s[j][1]
    BY <1>2, <2>1, Thirds
  <2>5. PICK h \in HeaderNames \cup {"line"} : s[j] = Text(h)
    BY <1>1, LineShape
  <2>6. s[j][1] = <<h, 1>> /\ s[j][2] = <<h, 2>>
    BY <2>5, TextShape
  <2>7. <<h, 1>> \in Units /\ <<h, 2>> \in Units
    BY DEF Units
  <2> QED
    BY <2>2, <2>3, <2>4, <2>6, <2>7
<1>4. CRLF \in Units
  BY DEF Units
<1>5. ASSUME NEW i \in 1..3 * n
      PROVE  a[i] \in Units
  <2>1. i \in Nat /\ i >= 1
    OBVIOUS
  <2>2. PICK j \in Nat : j >= 1 /\ (i = 3 * j \/ i = 3 * j - 1 \/ i = 3 * j - 2)
    BY <2>1, ThirdsOf, Zenon
  <2>3. j \in 1..n
    BY <2>2
  <2> QED
    BY <2>2, <2>3, <1>3, <1>4
<1>6. a \in Seq(Units) /\ Len(a) = 3 * n
  BY <1>2, <1>5
<1>20. PICK c : c = <<CRLF>>
  OBVIOUS
<1>7. c \in Seq(Units) /\ Len(c) = 1 /\ c[1] = CRLF
  BY <1>4, <1>20
<1>21. PICK b : b = IF HasBody(r) THEN Body ELSE <<>>
  OBVIOUS
<1>8. /\ b \in Seq(Units) /\ Len(b) = BodyLen(r)
      /\ HasBody(r) => b[1] = <<"body", 1>> /\ b[2] = <<"body", 2>>
  <2>1. Body \in Seq(Units) /\ Len(Body) = 2 /\ Body[1] = <<"body", 1>> /\ Body[2] = <<"body", 2>>
    BY TextShape DEF Body
  <2>2. CASE HasBody(r)
    BY <1>21, <2>1, <2>2 DEF BodyLen
  <2>3. CASE ~HasBody(r)
    BY <1>21, <2>3 DEF BodyLen
  <2> QED
    BY <2>2, <2>3
<1>9. PICK ac, e : ac = a \o c /\ e = ac \o b
  OBVIOUS
<1>10. e = Encode(r)
  BY <1>1, <1>2, <1>20, <1>21, <1>9 DEF Encode
<1>11. ac \in Seq(Units) /\ Len(ac) = Len(a) + Len(c)
      /\ (\A i \in 1..Len(a) : ac[i] = a[i]) /\ (\A i \in 1..Len(c) : ac[Len(a) + i] = c[i])
  <2>1. a \in Seq(Units) /\ c \in Seq(Units) /\ ac = a \o c
    BY <1>6, <1>7, <1>9
  <2> QED
    BY <2>1, Joined
<1>12. /\ Len(ac) = 3 * n + 1 /\ ac[3 * n + 1] = CRLF
       /\ \A i \in 1..3 * n : ac[i] = a[i]
  BY <1>6, <1>7, <1>11
<1>13. e \in Seq(Units) /\ Len(e) = Len(ac) + Len(b)
      /\ (\A i \in 1..Len(ac) : e[i] = ac[i]) /\ (\A i \in 1..Len(b) : e[Len(ac) + i] = b[i])
  <2>1. ac \in Seq(Units) /\ b \in Seq(Units) /\ e = ac \o b
    BY <1>8, <1>9, <1>11
  <2> QED
    BY <2>1, Joined
<1>14. PICK m \in Nat : m = 3 * n + 1
  OBVIOUS
<1>15. Len(e) = m + BodyLen(r)
  BY <1>8, <1>12, <1>13, <1>14
<1>16. \A i \in 1..m : e[i] = ac[i]
  BY <1>12, <1>13, <1>14
<1>17. HasBody(r) => e[m + 1] = <<"body", 1>> /\ e[m + 2] = <<"body", 2>>
  BY <1>8, <1>12, <1>13, <1>14 DEF BodyLen
<1>18. ASSUME NEW j \in 1..n
       PROVE  e[3 * j - 2] = s[j][1] /\ e[3 * j - 1] = s[j][2] /\ e[3 * j] = CRLF
  <2>1. 3 * j - 2 \in 1..3 * n /\ 3 * j - 1 \in 1..3 * n /\ 3 * j \in 1..3 * n
    OBVIOUS
  <2>2. ASSUME NEW i \in 1..3 * n
        PROVE  e[i] = a[i]
    <3>1. i \in 1..m
      BY <1>14
    <3> QED
      BY <3>1, <1>12, <1>16
  <2> QED
    BY <2>1, <2>2, <1>3
<1>19. e[m] = CRLF /\ m + 1 = 3 * n + 2 /\ m + 2 = 3 * n + 3
  BY <1>12, <1>14, <1>16
<1> QED
  BY <1>1, <1>10, <1>13, <1>14, <1>15, <1>17, <1>18, <1>19

(* Only the first unit is the start of a request line.                     *)
-----------------------------------------------------------------------------
(* The steps as the input side sees them: init after an answer, and those  *)
(* that only move on.                                                      *)

Renew ==
  /\ phase = "sent" /\ phase' = "in" /\ KeepAlive
  /\ cur' = None /\ wire' = wire
  /\ m_read_buf' = EmptyBuf /\ m_read_idx' = 0 /\ m_parse_state' = "REQUEST_LINE"
  /\ m_http_base' = NoBase
  /\ ragged' = FALSE /\ cut' = (cut \/ wire # <<>>)

Moves ==
  \/ phase' = phase
  \/ phase = "process" /\ phase' \in {"parse", "out"}
  \/ phase = "parse" /\ m_parse_state = "DONE" /\ phase' = "handle"
  \/ phase \in {"handle", "valid", "expired", "name", "route"}
     /\ phase' \in {"valid", "expired", "name", "route", "respond"}
  \/ phase = "respond" /\ phase' = "out"
  \/ phase = "respond" /\ phase' = "in" /\ m_http_base.req.big
  \/ phase \in {"out", "again"} /\ phase' \in {"out", "again", "sent"}

Onward ==
  /\ Moves
  /\ UNCHANGED <<client, input, ragged, cut>>
  /\ \/ UNCHANGED m_http_base
     \/ phase = "name" /\ AuthName

LEMMA InputSteps ==
  ASSUME Next
  PROVE  \/ Close
         \/ \E r \in Requests : Send(r)
         \/ \E n \in 1..Len(wire) : Read(n)
         \/ ParseRequestLine \/ ParseHeader \/ ParseBody
         \/ Renew
         \/ Onward
<1> USE DEF Onward, Moves, GoTo, Answer, client, input, history
<1>1. CASE (\E r \in Requests : Send(r)) \/ (\E n \in 1..Len(wire) : Read(n))
           \/ ParseRequestLine \/ ParseHeader \/ ParseBody
  BY <1>1
<1>2. CASE ReadFails \/ RespondFails
  BY <1>2 DEF ReadFails, RespondFails
<1>3. CASE Process
  BY <1>3 DEF Process
<1>4. CASE ParseDone
  BY <1>4 DEF ParseDone
<1>5. CASE HandleRequest
  BY <1>5 DEF HandleRequest
<1>6. CASE AuthValid \/ AuthExpired
  BY <1>6 DEF AuthValid, AuthExpired
<1>7. CASE AuthName
  BY <1>7 DEF AuthName
<1>8. CASE RouteDenied \/ RouteJson \/ RouteNotFound
  BY <1>8 DEF RouteDenied, RouteJson, RouteNotFound
<1>9. CASE RouteLogin
  BY <1>9 DEF RouteLogin
<1>10. CASE RoutePage
  BY <1>10 DEF RoutePage
<1>11. CASE RespondBuilt
  BY <1>11 DEF RespondBuilt
<1>12. CASE RespondFile
  BY <1>12 DEF RespondFile
<1>13. CASE \E r \in Results, h \in 0..HeaderUnits, f \in 0..FileSize :
             Write(r, h, f) \/ WriteAgain(r, h, f)
  <2> PICK r \in Results, h \in 0..HeaderUnits, f \in 0..FileSize :
             Write(r, h, f) \/ WriteAgain(r, h, f)
    BY <1>13
  <2>1. \/ Close
        \/ /\ Sending(r, h, f) /\ phase \in {"out", "again"}
           /\ phase' \in {"out", "again", "sent"}
    BY DEF Write, WriteAgain
  <2>2. ASSUME Sending(r, h, f)
        PROVE  UNCHANGED <<client, input, ragged, cut, m_http_base>>
    BY <2>2 DEF Sending
  <2> QED
    BY <2>1, <2>2
<1>14. CASE Finish
  BY <1>14 DEF Finish, Renew
<1>15. CASE Elsewhere
  BY <1>15 DEF Elsewhere
<1> QED
  BY <1>1, <1>2, <1>3, <1>4, <1>5, <1>6, <1>7, <1>8, <1>9, <1>10, <1>11, <1>12, <1>13, <1>14, <1>15
     DEF Next

-----------------------------------------------------------------------------
(* The read buffer.                                                        *)

BufOK == m_read_buf \in [1..BufSize -> Units \cup {NUL}] /\ m_read_idx \in 0..BufSize

LEMMA Marks ==
  CRLF # NUL /\ NUL \notin Units /\ CRLF \in Units
BY DEF CRLF, NUL, Units, HeaderNames

LEMMA StrstrShape ==
  ASSUME BufOK
  PROVE  /\ Strstr \in 0..BufSize
         /\ Strstr > 0 => /\ m_read_buf[Strstr] = CRLF
                          /\ \A j \in 1..Strstr - 1 : m_read_buf[j] \notin {CRLF, NUL}
         /\ \A i \in 1..BufSize :
              (m_read_buf[i] = CRLF /\ \A j \in 1..i - 1 : m_read_buf[j] \notin {CRLF, NUL})
              => Strstr = i
<1>1. PICK ends : ends = {i \in 1..BufSize :
        m_read_buf[i] = CRLF /\ \A j \in 1..i - 1 : m_read_buf[j] \notin {CRLF, NUL}}
  OBVIOUS
<1>2. Strstr = IF ends = {} THEN 0 ELSE CHOOSE i \in ends : TRUE
  BY <1>1 DEF Strstr
<1>3. BufSize \in Nat \ {0}
  BY SizesPositive
<1>4. CASE ends = {}
  BY <1>1, <1>2, <1>3, <1>4
<1>5. CASE ends # {}
  <2>1. PICK at : at = Strstr
    OBVIOUS
  <2>2. at \in ends
    BY <1>2, <1>5, <2>1
  <2>3. /\ at \in 1..BufSize /\ m_read_buf[at] = CRLF
        /\ \A j \in 1..at - 1 : m_read_buf[j] \notin {CRLF, NUL}
    BY <1>1, <2>2
  <2>4. ASSUME NEW i \in 1..BufSize, m_read_buf[i] = CRLF,
               \A j \in 1..i - 1 : m_read_buf[j] \notin {CRLF, NUL}
        PROVE  at = i
    <3>1. ~(at < i)
      BY <1>3, <2>3, <2>4
    <3>2. ~(i < at)
      BY <1>3, <2>3, <2>4
    <3> QED
      BY <1>3, <2>3, <3>1, <3>2
  <2> QED
    BY <1>3, <2>1, <2>3, <2>4
<1> QED
  BY <1>4, <1>5

LEMMA RemoveLineShape ==
  ASSUME BufOK, NEW len \in Nat, RemoveLine(len)
  PROVE  /\ BufOK'
         /\ len <= m_read_idx => /\ m_read_idx' = m_read_idx - len
                                 /\ \A i \in 1..m_read_idx' : m_read_buf'[i] = m_read_buf[i + len]
         /\ m_read_idx' < BufSize => m_read_buf'[m_read_idx' + 1] = NUL
<1>1. BufSize \in Nat \ {0}
  BY SizesPositive
<1>2. PICK k \in 0..BufSize : k = m_read_idx
  BY DEF BufOK
<1>3. PICK left \in 0..BufSize : left = IF len >= k THEN 0 ELSE k - len
  BY <1>1
<1>4. /\ m_read_idx' = left
      /\ m_read_buf' = [i \in 1..BufSize |->
           IF i <= left THEN m_read_buf[i + len]
           ELSE IF i = left + 1 THEN NUL ELSE m_read_buf[i]]
  BY <1>2, <1>3 DEF RemoveLine
<1>5. ASSUME NEW i \in 1..BufSize
      PROVE  m_read_buf'[i] \in Units \cup {NUL}
  <2>1. m_read_buf[i] \in Units \cup {NUL}
    BY DEF BufOK
  <2>2. i <= left => m_read_buf[i + len] \in Units \cup {NUL}
    <3>1. i <= left => i + len \in 1..BufSize
      BY <1>1, <1>3
    <3> QED
      BY <3>1 DEF BufOK
  <2> QED
    BY <1>4, <2>1, <2>2
<1>6. BufOK'
  BY <1>4, <1>5 DEF BufOK
<1>7. ASSUME len <= k
      PROVE  /\ left = k - len
             /\ \A i \in 1..left : m_read_buf'[i] = m_read_buf[i + len]
  <2>1. left = k - len
    BY <1>1, <1>3, <1>7
  <2>2. ASSUME NEW i \in 1..left
        PROVE  m_read_buf'[i] = m_read_buf[i + len]
    <3>1. i \in 1..BufSize /\ i <= left
      BY <1>1
    <3> QED
      BY <3>1, <1>4
  <2> QED
    BY <2>1, <2>2
<1>8. ASSUME left < BufSize
      PROVE  m_read_buf'[left + 1] = NUL
  <2>1. left + 1 \in 1..BufSize /\ ~(left + 1 <= left)
    BY <1>1, <1>8
  <2> QED
    BY <2>1, <1>4
<1> QED
  BY <1>2, <1>4, <1>6, <1>7, <1>8

-----------------------------------------------------------------------------
(* Every step keeps the input side in order.                               *)

Input ==
  /\ Idle /\ Fresh /\ Mine /\ Handling
  /\ Stream /\ Parsed /\ Delimited /\ Waiting

ConnTypes ==
  /\ phase \in Phases /\ cur \in Requests \cup {None} /\ wire \in Seq(Units)
  /\ BufOK /\ m_parse_state \in {"REQUEST_LINE", "HEADERS", "BODY", "DONE"}
  /\ m_http_base \in [req : Readable \cup {None}, lines : Seq(Seq(Units)),
                      body : Seq(Units \cup {NUL}), auth : BOOLEAN, user : Users \cup {None}]
  /\ ragged \in BOOLEAN /\ cut \in BOOLEAN

LEMMA NoneIsNoRequest == None \notin Requests
BY RequestsWellFormed, NoneIsNothing DEF Readable

LEMMA EmptyBufShape ==
  /\ \A i \in 1..BufSize : EmptyBuf[i] = NUL
  /\ EmptyBuf \in [1..BufSize -> Units \cup {NUL}]
BY SizesPositive, Marks DEF EmptyBuf

LEMMA CloseInput ==
  ASSUME Close
  PROVE  Input'
<1>1. /\ cur' = None /\ wire' = <<>> /\ m_read_idx' = 0 /\ m_read_buf' = EmptyBuf
      /\ m_parse_state' = "REQUEST_LINE" /\ m_http_base' = NoBase
      /\ ragged' = FALSE /\ cut' = FALSE /\ phase' = "closed"
  BY DEF Close
<1>2. Idle'
  BY <1>1 DEF Idle, EmptyBuf
<1>3. Fresh'
  BY <1>1, EmptyBufShape DEF Fresh, NoBase
<1>4. Mine' /\ Handling' /\ Delimited'
  BY <1>1 DEF Mine, Handling, Delimited
<1>5. ~Plain'
  BY <1>1 DEF Plain
<1> QED
  BY <1>2, <1>3, <1>4, <1>5 DEF Input, Stream, Parsed, Waiting

LEMMA RenewInput ==
  ASSUME Renew
  PROVE  Input'
<1>1. /\ cur' = None /\ wire' = wire /\ m_read_idx' = 0 /\ m_read_buf' = EmptyBuf
      /\ m_parse_state' = "REQUEST_LINE" /\ m_http_base' = NoBase
      /\ ragged' = FALSE /\ cut' = (cut \/ wire # <<>>) /\ phase' = "in"
  BY DEF Renew
<1>2. Idle'
  BY <1>1 DEF Idle, EmptyBuf
<1>3. Fresh'
  BY <1>1, EmptyBufShape DEF Fresh, NoBase
<1>4. Mine' /\ Handling' /\ Delimited'
  BY <1>1 DEF Mine, Handling, Delimited
<1>5. ~Plain'
  BY <1>1 DEF Plain
<1> QED
  BY <1>2, <1>3, <1>4, <1>5 DEF Input, Stream, Parsed, Waiting

LEMMA SendInput ==
  ASSUME ConnTypes, Input, NEW r \in Requests, Send(r)
  PROVE  Input'
<1>1. /\ cur = None /\ phase # "closed" /\ cur' = r /\ wire' = wire \o Encode(r)
      /\ phase' = phase /\ m_read_idx' = m_read_idx /\ m_read_buf' = m_read_buf
      /\ m_parse_state' = m_parse_state /\ m_http_base' = m_http_base
      /\ ragged' = ragged /\ cut' = cut
  BY DEF Send, input, history
<1>2. Encode(r) \in Seq(Units) /\ wire \in Seq(Units)
  BY EncodeShape DEF ConnTypes
<1>3. /\ wire' \in Seq(Units) /\ Len(wire') = Len(wire) + Len(Encode(r))
      /\ \A i \in 1..Len(wire) : wire'[i] = wire[i]
      /\ \A i \in 1..Len(Encode(r)) : wire'[Len(wire) + i] = Encode(r)[i]
  <2>1. PICK e, w : e = Encode(r) /\ w = wire'
    OBVIOUS
  <2>2. e \in Seq(Units) /\ wire \in Seq(Units) /\ w = wire \o e
    BY <1>1, <1>2, <2>1
  <2>3. /\ w \in Seq(Units) /\ Len(w) = Len(wire) + Len(e)
        /\ \A i \in 1..Len(wire) : w[i] = wire[i]
        /\ \A i \in 1..Len(e) : w[Len(wire) + i] = e[i]
    BY <2>2, Joined
  <2> QED
    BY <2>1, <2>3
<1>4. ~cut => /\ phase = "in" /\ wire = <<>> /\ m_read_idx = 0
              /\ m_parse_state = "REQUEST_LINE"
  BY <1>1 DEF Input, Idle
<1>5. cur' # None
  BY <1>1, NoneIsNoRequest
<1>6. Idle' /\ Handling' /\ Delimited' /\ Fresh' /\ Mine'
  BY <1>1, <1>4, <1>5 DEF Input, Idle, Handling, Delimited, Fresh, Mine
<1>8. ASSUME Plain'
      PROVE  /\ m_parse_state' = "REQUEST_LINE" /\ m_read_idx' = 0 /\ Len(wire) = 0
             /\ Consumed' = 0
  BY <1>1, <1>4, <1>8 DEF Plain, Consumed
<1>9. Stream'
  <2> SUFFICES ASSUME Plain'
               PROVE  /\ Len(wire') = Len(Encode(r)) - 0 - 0
                      /\ \A i \in 1..0 : m_read_buf'[i] = Encode(r)[0 + i]
                      /\ \A i \in 1..Len(wire') : wire'[i] = Encode(r)[0 + 0 + i]
    BY <1>1, <1>8 DEF Stream
  <2> QED
    BY <1>2, <1>3, <1>8
<1>10. Parsed' /\ Waiting'
  BY <1>8 DEF Parsed, Waiting
<1> QED
  BY <1>6, <1>9, <1>10 DEF Input

LEMMA OnwardInput ==
  ASSUME ConnTypes, Input, Onward
  PROVE  Input'
<1>1. /\ cur' = cur /\ wire' = wire /\ m_read_idx' = m_read_idx /\ m_read_buf' = m_read_buf
      /\ m_parse_state' = m_parse_state /\ ragged' = ragged /\ cut' = cut
  BY DEF Onward, client, input
<1>2. m_http_base' = m_http_base \/ phase = "name"
  BY DEF Onward
<1>3. /\ m_http_base'.lines = m_http_base.lines /\ m_http_base'.body = m_http_base.body
      /\ m_http_base'.req = m_http_base.req
  BY DEF Onward, AuthName, ConnTypes
<1>4. Moves
  BY DEF Onward
<1>5. Idle'
  BY <1>1, <1>4 DEF Input, Idle, Moves
<1>6. Fresh'
  BY <1>1, <1>2 DEF Input, Fresh, Handling
<1>7. Mine'
  BY <1>1, <1>3 DEF Input, Mine
<1>8. Handling'
  BY <1>1, <1>4 DEF Input, Handling, Moves
<1>9. Delimited'
  BY <1>1 DEF Input, Delimited
<1>10. Consumed' = Consumed /\ Plain' = Plain /\ ContentLength' = ContentLength
  BY <1>1, <1>3 DEF Consumed, Plain, ContentLength, HasHeader
<1>11. Stream'
  BY <1>1, <1>10 DEF Input, Stream
<1>12. Parsed'
  BY <1>1, <1>3, <1>10 DEF Input, Parsed
<1>13. Waiting'
  <2>1. CASE phase' = "in" /\ phase = "in"
    BY <2>1, <1>1, <1>3, <1>10 DEF Input, Waiting
  <2>2. CASE phase' = "in" /\ phase # "in"
    <3>1. phase = "respond" /\ m_http_base.req.big /\ m_parse_state = "DONE"
      BY <2>2, <1>4 DEF Moves, Input, Handling
    <3>2. Plain => m_http_base.req = cur
      BY <3>1 DEF Plain, Input, Mine
    <3> QED
      BY <3>1, <3>2, <1>1, <1>10 DEF Waiting
  <2> QED
    BY <2>1, <2>2 DEF Waiting
<1> QED
  BY <1>5, <1>6, <1>7, <1>8, <1>9, <1>11, <1>12, <1>13 DEF Input

LEMMA ConsumedType ==
  ASSUME ConnTypes, cur # None
  PROVE  Consumed \in Nat
<1>1. cur \in Requests /\ m_http_base.lines \in Seq(Seq(Units))
  BY DEF ConnTypes
<1>2. Len(Encode(cur)) \in Nat /\ Len(m_http_base.lines) \in Nat
  BY <1>1, EncodeShape
<1> QED
  BY <1>2 DEF Consumed, ConnTypes

(* What one call of recv does to the buffer and the socket.                *)
LEMMA ReadShape ==
  ASSUME ConnTypes, NEW n \in 1..Len(wire), Read(n)
  PROVE  \E k \in 1..Len(wire) :
           /\ m_read_idx + k <= BufSize /\ m_read_idx' = m_read_idx + k
           /\ \A i \in 1..BufSize : i <= m_read_idx => m_read_buf'[i] = m_read_buf[i]
           /\ \A i \in 1..k : m_read_buf'[m_read_idx + i] = wire[i]
           /\ \A i \in 1..BufSize : i > m_read_idx + k => m_read_buf'[i] = m_read_buf[i]
           /\ wire' \in Seq(Units) /\ Len(wire') = Len(wire) - k
           /\ \A i \in 1..Len(wire') : wire'[i] = wire[k + i]
           /\ BufOK'
           /\ (m_parse_state = "HEADERS" /\ ~ragged') => \E i \in 1..k : wire[i] = CRLF
<1>1. PICK x \in 0..BufSize : x = m_read_idx
  BY DEF ConnTypes, BufOK
<1>2. PICK l \in Nat : l = Len(wire)
  BY DEF ConnTypes
<1>3. BufSize \in Nat \ {0} /\ x < BufSize
  BY <1>1, SizesPositive DEF Read
<1>4. PICK k \in 1..l : k = IF n <= BufSize - x THEN n ELSE BufSize - x
  <2>1. n \in 1..l
    BY <1>2
  <2>2. CASE n <= BufSize - x
    BY <2>1, <2>2
  <2>3. CASE ~(n <= BufSize - x)
    <3>1. BufSize - x \in 1..l
      BY <2>1, <2>3, <1>3
    <3> QED
      BY <2>3, <3>1
  <2> QED
    BY <2>2, <2>3
<1>5. x + k <= BufSize
  BY <1>3, <1>4
<1>6. /\ m_read_buf' = [i \in 1..BufSize |-> IF i \in x + 1..x + k THEN wire[i - x] ELSE m_read_buf[i]]
      /\ m_read_idx' = x + k
      /\ wire' = SubSeq(wire, k + 1, l)
      /\ ragged' = (ragged \/ (m_parse_state = "HEADERS" /\ CRLF \notin ToSet(SubSeq(wire, 1, k))))
  BY <1>1, <1>2, <1>4 DEF Read
<1>7. /\ wire' \in Seq(Units) /\ Len(wire') = l - k
      /\ \A i \in 1..l - k : wire'[i] = wire[k + i]
  <2>1. \A i \in k + 1..l : wire[i] \in Units
    BY <1>2 DEF ConnTypes
  <2>2. k + 1 \in Int /\ l \in Int
    OBVIOUS
  <2>3. /\ SubSeq(wire, k + 1, l) \in Seq(Units)
        /\ Len(SubSeq(wire, k + 1, l)) = (IF k + 1 <= l THEN l - (k + 1) + 1 ELSE 0)
        /\ \A i \in 1..l - (k + 1) + 1 : SubSeq(wire, k + 1, l)[i] = wire[(k + 1) + i - 1]
    BY <2>1, <2>2, SubSeqProperties
  <2>4. \A i \in 1..l - k : wire'[i] = wire[k + i]
    <3> SUFFICES ASSUME NEW i \in 1..l - k PROVE wire'[i] = wire[k + i]
      OBVIOUS
    <3>1. i \in 1..l - (k + 1) + 1 /\ (k + 1) + i - 1 = k + i
      OBVIOUS
    <3> QED
      BY <3>1, <2>3, <1>6
  <2> QED
    BY <2>3, <2>4, <1>6
<1>8. ASSUME NEW i \in 1..BufSize
      PROVE  /\ i <= x => m_read_buf'[i] = m_read_buf[i]
             /\ i > x + k => m_read_buf'[i] = m_read_buf[i]
             /\ m_read_buf'[i] \in Units \cup {NUL}
  <2>1. i \in x + 1..x + k => i - x \in 1..l
    BY <1>3
  <2>2. i \in x + 1..x + k => wire[i - x] \in Units
    BY <2>1, <1>2 DEF ConnTypes
  <2>3. m_read_buf[i] \in Units \cup {NUL}
    BY DEF ConnTypes, BufOK
  <2> QED
    BY <1>6, <2>2, <2>3
<1>9. ASSUME NEW i \in 1..k
      PROVE  m_read_buf'[x + i] = wire[i]
  <2>1. x + i \in 1..BufSize /\ x + i \in x + 1..x + k /\ (x + i) - x = i
    BY <1>3, <1>5
  <2> QED
    BY <2>1, <1>6
<1>10. BufOK'
  <2>1. x + k \in 0..BufSize
    BY <1>3, <1>5
  <2> QED
    BY <1>6, <1>8, <2>1 DEF BufOK
<1>11. ASSUME m_parse_state = "HEADERS", ~ragged'
       PROVE  \E i \in 1..k : wire[i] = CRLF
  <2>1. CRLF \in ToSet(SubSeq(wire, 1, k))
    BY <1>6, <1>11
  <2>2. \A i \in 1..k : wire[i] \in Units
    BY <1>2 DEF ConnTypes
  <2>3. PICK s : s = SubSeq(wire, 1, k)
    OBVIOUS
  <2>4. s \in Seq(Units) /\ Len(s) = k /\ \A i \in 1..k : s[i] = wire[i]
    <3>1. /\ s \in Seq(Units) /\ Len(s) = (IF 1 <= k THEN k - 1 + 1 ELSE 0)
          /\ \A i \in 1..k - 1 + 1 : s[i] = wire[1 + i - 1]
      BY <2>2, <2>3, SubSeqProperties
    <3> QED
      BY <3>1
  <2>5. PICK i \in DOMAIN s : s[i] = CRLF
    BY <2>1, <2>3 DEF ToSet
  <2> QED
    BY <2>4, <2>5
<1> QED
  BY <1>1, <1>2, <1>5, <1>6, <1>7, <1>8, <1>9, <1>10, <1>11

LEMMA ReadInput ==
  ASSUME ConnTypes, Input, NEW n \in 1..Len(wire), Read(n)
  PROVE  Input'
<1>1. /\ phase = "in" /\ phase' = "process" /\ cur' = cur /\ m_parse_state' = m_parse_state
      /\ m_http_base' = m_http_base /\ cut' = cut
      /\ ragged' => ragged \/ m_parse_state = "HEADERS"
      /\ ragged => ragged'
  BY DEF Read
<1>2. PICK k \in 1..Len(wire) :
           /\ m_read_idx + k <= BufSize /\ m_read_idx' = m_read_idx + k
           /\ \A i \in 1..BufSize : i <= m_read_idx => m_read_buf'[i] = m_read_buf[i]
           /\ \A i \in 1..k : m_read_buf'[m_read_idx + i] = wire[i]
           /\ \A i \in 1..BufSize : i > m_read_idx + k => m_read_buf'[i] = m_read_buf[i]
           /\ wire' \in Seq(Units) /\ Len(wire') = Len(wire) - k
           /\ \A i \in 1..Len(wire') : wire'[i] = wire[k + i]
           /\ BufOK'
           /\ (m_parse_state = "HEADERS" /\ ~ragged') => \E i \in 1..k : wire[i] = CRLF
  BY ReadShape
<1>3. PICK x \in Nat, y \in Nat, l \in Nat, m \in Nat :
        x = m_read_idx /\ y = m_read_idx' /\ l = Len(wire) /\ m = Len(wire')
  BY <1>2 DEF ConnTypes, BufOK
<1>4. /\ k \in Nat /\ 1 <= k /\ k <= l /\ y = x + k /\ m = l - k /\ y <= BufSize /\ BufSize \in Nat
  BY <1>2, <1>3, SizesPositive
<1>5. cut \/ cur # None
  <2>1. wire # <<>>
    OBVIOUS
  <2> QED
    BY <2>1 DEF Input, Idle
<1>6. Idle' /\ Handling'
  BY <1>1, <1>5 DEF Idle, Handling
<1>7. Fresh'
  <2> SUFFICES ASSUME m_parse_state = "REQUEST_LINE"
               PROVE  m_http_base = NoBase /\ ~ragged' /\ \A i \in 1..BufSize : i > y => m_read_buf'[i] = NUL
    BY <1>1, <1>3 DEF Fresh, NoBase
  <2>1. \A i \in 1..BufSize : i > x => m_read_buf[i] = NUL
    BY <1>3 DEF Input, Fresh
  <2>2. \A i \in 1..BufSize : i > y => m_read_buf'[i] = m_read_buf[i]
    BY <1>2, <1>3
  <2>3. \A i \in 1..BufSize : i > y => i > x
    BY <1>4
  <2> QED
    BY <1>1, <2>1, <2>2, <2>3 DEF Input, Fresh
<1>8. Mine'
  BY <1>1 DEF Input, Mine
<1>10. Delimited'
  <2> SUFFICES ASSUME m_parse_state = "HEADERS", ~ragged'
               PROVE  \E i \in 1..y : m_read_buf'[i] = CRLF
    BY <1>1, <1>3 DEF Delimited
  <2>1. PICK i \in 1..k : wire[i] = CRLF
    BY <1>2
  <2>2. x + i \in 1..y
    BY <1>4
  <2>3. m_read_buf'[x + i] = wire[i]
    BY <1>2, <1>3
  <2> QED
    BY <2>1, <2>2, <2>3
<1>11. Waiting'
  BY <1>1 DEF Waiting
<1>12. ASSUME Plain'
       PROVE  Plain /\ Consumed' = Consumed
  BY <1>1, <1>12 DEF Plain, Consumed
<1>13. Parsed'
  BY <1>1, <1>12 DEF Input, Parsed
<1>14. Stream'
  <2> SUFFICES ASSUME Plain'
               PROVE  /\ m = Len(Encode(cur)) - Consumed - y
                      /\ \A i \in 1..y : m_read_buf'[i] = Encode(cur)[Consumed + i]
                      /\ \A i \in 1..m : wire'[i] = Encode(cur)[Consumed + y + i]
    BY <1>1, <1>3, <1>12 DEF Stream
  <2>1. cur \in Requests
    BY <1>1, <1>12 DEF Plain, ConnTypes
  <2>2. PICK c \in Nat, e \in Nat : c = Consumed /\ e = Len(Encode(cur))
    BY <2>1, EncodeShape, ConsumedType, NoneIsNoRequest
  <2>3. /\ l = e - c - x
        /\ \A i \in 1..x : m_read_buf[i] = Encode(cur)[c + i]
        /\ \A i \in 1..l : wire[i] = Encode(cur)[c + x + i]
    BY <1>3, <1>12, <2>2 DEF Input, Stream
  <2>4. m = e - c - y
    BY <1>4, <2>3
  <2>5. ASSUME NEW i \in 1..y
        PROVE  m_read_buf'[i] = Encode(cur)[c + i]
    <3>1. CASE i <= x
      <4>1. i \in 1..BufSize /\ i \in 1..x
        BY <1>4, <3>1
      <4> QED
        BY <4>1, <3>1, <1>2, <1>3, <2>3
    <3>2. CASE i > x
      <4>1. PICK j \in 1..k : i = x + j /\ c + x + j = c + i
        BY <1>4, <3>2
      <4>2. j \in 1..l
        BY <1>4
      <4>3. m_read_buf'[x + j] = wire[j]
        BY <1>2, <1>3
      <4>4. wire[j] = Encode(cur)[c + x + j]
        BY <4>2, <2>3
      <4> QED
        BY <4>1, <4>3, <4>4
    <3> QED
      BY <3>1, <3>2
  <2>6. ASSUME NEW i \in 1..m
        PROVE  wire'[i] = Encode(cur)[c + y + i]
    <3>1. k + i \in 1..l /\ c + x + (k + i) = c + y + i
      BY <1>4
    <3>2. wire'[i] = wire[k + i]
      BY <1>2, <1>3
    <3>3. wire[k + i] = Encode(cur)[c + x + (k + i)]
      BY <3>1, <2>3
    <3> QED
      BY <3>1, <3>2, <3>3
  <2> QED
    BY <2>2, <2>4, <2>5, <2>6
<1> QED
  BY <1>6, <1>7, <1>8, <1>10, <1>11, <1>13, <1>14 DEF Input

-----------------------------------------------------------------------------
(* The parser.                                                             *)

LEMMA EncodeLine ==
  ASSUME NEW r \in Requests, NEW k \in Nat, k < Len(Lines(r))
  PROVE  \E h \in HeaderNames \cup {"line"} :
           /\ Lines(r)[k + 1] = Text(h)
           /\ k = 0 => h = "line"
           /\ Encode(r)[3 * k + 1] = <<h, 1>>
           /\ Encode(r)[3 * k + 2] = <<h, 2>>
           /\ Encode(r)[3 * k + 3] = CRLF
           /\ <<h, 1>> \notin {CRLF, NUL} /\ <<h, 2>> \notin {CRLF, NUL}
<1>1. k + 1 \in 1..Len(Lines(r))
  BY LinesShape
<1>2. PICK h \in HeaderNames \cup {"line"} : Lines(r)[k + 1] = Text(h)
  BY <1>1, LineShape
<1>3. k = 0 => h = "line"
  BY <1>2, LinesShape, TextShape
<1>4. /\ Encode(r)[3 * (k + 1) - 2] = <<h, 1>>
      /\ Encode(r)[3 * (k + 1) - 1] = <<h, 2>>
      /\ Encode(r)[3 * (k + 1)] = CRLF
  BY <1>1, <1>2, EncodeShape, TextShape
<1>5. 3 * (k + 1) - 2 = 3 * k + 1 /\ 3 * (k + 1) - 1 = 3 * k + 2 /\ 3 * (k + 1) = 3 * k + 3
  OBVIOUS
<1>6. <<h, 1>> \notin {CRLF, NUL} /\ <<h, 2>> \notin {CRLF, NUL}
  BY DEF CRLF, NUL
<1> QED
  BY <1>2, <1>3, <1>4, <1>5, <1>6

LEMMA LineOf ==
  ASSUME BufOK, NEW m \in 0..BufSize
  PROVE  /\ SubSeq(m_read_buf, 1, m) \in Seq(Units \cup {NUL})
         /\ Len(SubSeq(m_read_buf, 1, m)) = m
         /\ \A i \in 1..m : SubSeq(m_read_buf, 1, m)[i] = m_read_buf[i]
<1>1. \A i \in 1..m : m_read_buf[i] \in Units \cup {NUL}
  BY SizesPositive DEF BufOK
<1>2. 1 \in Int /\ m \in Int
  BY SizesPositive
<1>3. /\ SubSeq(m_read_buf, 1, m) \in Seq(Units \cup {NUL})
      /\ Len(SubSeq(m_read_buf, 1, m)) = (IF 1 <= m THEN m - 1 + 1 ELSE 0)
      /\ \A i \in 1..m - 1 + 1 : SubSeq(m_read_buf, 1, m)[i] = m_read_buf[1 + i - 1]
  BY <1>1, <1>2, SubSeqProperties
<1>4. \A i \in 1..m : SubSeq(m_read_buf, 1, m)[i] = m_read_buf[i]
  <2> SUFFICES ASSUME NEW i \in 1..m PROVE SubSeq(m_read_buf, 1, m)[i] = m_read_buf[i]
    OBVIOUS
  <2>1. i \in 1..m - 1 + 1 /\ 1 + i - 1 = i
    BY SizesPositive
  <2> QED
    BY <2>1, <1>3
<1> QED
  BY <1>3, <1>4, SizesPositive

LEMMA LineText ==
  ASSUME BufOK, NEW at \in 1..BufSize, NEW h
  PROVE  SubSeq(m_read_buf, 1, at - 1) = Text(h)
         <=> (at = 3 /\ m_read_buf[1] = <<h, 1>> /\ m_read_buf[2] = <<h, 2>>)
<1>1. PICK m \in 0..BufSize : m = at - 1
  BY SizesPositive
<1>2. PICK s \in Seq(Units \cup {NUL}) : s = SubSeq(m_read_buf, 1, m)
  BY LineOf
<1>3. Len(s) = m /\ \A i \in 1..m : s[i] = m_read_buf[i]
  BY <1>2, LineOf
<1>4. PICK t : t = Text(h)
  OBVIOUS
<1>5. t = <<<<h, 1>>, <<h, 2>>>>
  BY <1>4 DEF Text
<1>6. ASSUME s = t PROVE m = 2 /\ m_read_buf[1] = <<h, 1>> /\ m_read_buf[2] = <<h, 2>>
  BY <1>3, <1>5, <1>6
<1>7. ASSUME m = 2, m_read_buf[1] = <<h, 1>>, m_read_buf[2] = <<h, 2>>
      PROVE  s = t
  BY <1>3, <1>5, <1>7
<1>8. m = 2 <=> at = 3
  BY <1>1, SizesPositive
<1> QED
  BY <1>1, <1>2, <1>4, <1>6, <1>7, <1>8

(* The parser is through with len units more.                              *)
LEMMA StreamShift ==
  ASSUME ConnTypes, Plain, Stream, NEW len \in Nat, len <= m_read_idx, RemoveLine(len),
         Consumed' = Consumed + len, cur' = cur, wire' = wire
  PROVE  Stream'
<1>1. cur \in Requests
  BY DEF Plain, ConnTypes
<1>2. PICK c \in Nat, e \in Nat : c = Consumed /\ e = Len(Encode(cur))
  BY <1>1, EncodeShape, ConsumedType, NoneIsNoRequest
<1>10. PICK x \in Nat, l \in Nat : x = m_read_idx /\ l = Len(wire)
  <2>1. m_read_idx \in Nat
    BY SizesPositive DEF ConnTypes, BufOK
  <2>2. Len(wire) \in Nat
    BY DEF ConnTypes
  <2> QED
    BY <2>1, <2>2
<1>11. PICK y \in Nat : y = x - len
  BY <1>10
<1>3. x = m_read_idx /\ y = x - len /\ l = Len(wire)
  BY <1>10, <1>11
<1>4. m_read_idx' = y /\ \A i \in 1..y : m_read_buf'[i] = m_read_buf[i + len]
  BY <1>3, RemoveLineShape DEF ConnTypes
<1>5. /\ l = e - c - x
      /\ \A i \in 1..x : m_read_buf[i] = Encode(cur)[c + i]
      /\ \A i \in 1..l : wire[i] = Encode(cur)[c + x + i]
  BY <1>2, <1>3 DEF Stream
<1>6. y = x - len
  BY <1>11
<1>7. l = e - (c + len) - y
  BY <1>5, <1>6
<1>8. ASSUME NEW i \in 1..y
      PROVE  m_read_buf'[i] = Encode(cur)[(c + len) + i]
  <2>1. i + len \in 1..x /\ c + (i + len) = (c + len) + i
    BY <1>6
  <2>2. m_read_buf[i + len] = Encode(cur)[c + (i + len)]
    BY <2>1, <1>5
  <2> QED
    BY <2>1, <2>2, <1>4
<1>9. ASSUME NEW i \in 1..l
      PROVE  wire[i] = Encode(cur)[(c + len) + y + i]
  <2>1. (c + len) + y + i = c + x + i
    BY <1>6
  <2> QED
    BY <2>1, <1>5
<1> QED
  BY <1>2, <1>3, <1>4, <1>7, <1>8, <1>9 DEF Stream

LEMMA Parsing ==
  ASSUME ConnTypes, Input, phase = "parse", ~cut
  PROVE  cur # None /\ cur \in Requests
BY DEF ConnTypes, Input, Idle

LEMMA ParseRequestLineInput ==
  ASSUME ConnTypes, Input, ParseRequestLine
  PROVE  Input'
<1>1. BufOK /\ BufSize \in Nat \ {0}
  BY SizesPositive DEF ConnTypes
<1>2. PICK at \in 0..BufSize : at = Strstr
  BY <1>1, StrstrShape
<1>3. PICK line : line = SubSeq(m_read_buf, 1, at - 1)
  OBVIOUS
<1>5. /\ phase = "parse" /\ m_parse_state = "REQUEST_LINE"
      /\ cur' = cur /\ wire' = wire /\ ragged' = ragged /\ cut' = cut
      /\ \/ at > 0 /\ phase' = phase /\ \E r \in ReadAs(line) : AcceptLine(r, line)
         \/ /\ at = 0 \/ Unreadable(line)
            /\ phase' = "in" /\ m_http_base' = m_http_base
            /\ m_read_buf' = m_read_buf /\ m_read_idx' = m_read_idx
            /\ m_parse_state' = m_parse_state
  BY <1>2, <1>3 DEF ParseRequestLine, client, history, input
<1>6. PICK x \in Nat : x = m_read_idx /\ x <= BufSize
  BY <1>1 DEF BufOK
<1>7. ASSUME Plain
      PROVE  /\ cur \in Requests
             /\ Len(Lines(cur)) >= 1 /\ Encode(cur)[1] = <<"line", 1>>
             /\ Encode(cur)[2] = <<"line", 2>> /\ Encode(cur)[3] = CRLF
             /\ Consumed = 0
             /\ \A i \in 1..x : m_read_buf[i] = Encode(cur)[i]
             /\ Len(wire) = Len(Encode(cur)) - x
             /\ \A i \in 1..Len(wire) : wire[i] = Encode(cur)[x + i]
  <2>1. cur \in Requests /\ Consumed = 0
    BY <1>5, <1>7 DEF Plain, ConnTypes, Consumed
  <2>2. Len(Lines(cur)) >= 1
    BY <2>1, LinesShape
  <2>3. PICK k \in Nat : k = 0
    OBVIOUS
  <2>9. k < Len(Lines(cur))
    BY <2>1, <2>2, <2>3, LinesShape
  <2>10. PICK h \in HeaderNames \cup {"line"} :
           /\ k = 0 => h = "line"
           /\ Encode(cur)[3 * k + 1] = <<h, 1>>
           /\ Encode(cur)[3 * k + 2] = <<h, 2>>
           /\ Encode(cur)[3 * k + 3] = CRLF
    BY <2>1, <2>9, EncodeLine
  <2>4. Encode(cur)[1] = <<"line", 1>> /\ Encode(cur)[2] = <<"line", 2>> /\ Encode(cur)[3] = CRLF
    BY <2>3, <2>10
  <2>5. /\ Len(wire) = Len(Encode(cur)) - 0 - x
        /\ \A i \in 1..x : m_read_buf[i] = Encode(cur)[0 + i]
        /\ \A i \in 1..Len(wire) : wire[i] = Encode(cur)[0 + x + i]
    BY <1>6, <1>7, <2>1 DEF Input, Stream
  <2>6. Len(Encode(cur)) \in Nat /\ Len(wire) \in Nat
    BY <2>1, EncodeShape DEF ConnTypes
  <2>7. \A i \in 1..x : 0 + i = i
    OBVIOUS
  <2>8. \A i \in 1..Len(wire) : 0 + x + i = x + i
    OBVIOUS
  <2> QED
    BY <2>1, <2>2, <2>4, <2>5, <2>6, <2>7, <2>8
<1>10. ASSUME Plain, at > 0
       PROVE  at = 3 /\ line = Text("line") /\ x >= 3
  <2>1. m_read_buf[at] = CRLF /\ \A j \in 1..at - 1 : m_read_buf[j] \notin {CRLF, NUL}
    BY <1>1, <1>2, <1>10, StrstrShape
  <2>2. at <= x
    <3>1. at > x => m_read_buf[at] = NUL
      BY <1>1, <1>5, <1>6, <1>10 DEF Input, Fresh
    <3> QED
      BY <1>6, <2>1, <3>1, Marks
  <2>3. <<"line", 1>> \notin {CRLF, NUL} /\ <<"line", 2>> \notin {CRLF, NUL}
    BY DEF CRLF, NUL
  <2>4. /\ x >= 1 => m_read_buf[1] = <<"line", 1>>
        /\ x >= 2 => m_read_buf[2] = <<"line", 2>>
        /\ x >= 3 => m_read_buf[3] = CRLF
    BY <1>7, <1>10
  <2>5. at # 1
    BY <1>10, <2>1, <2>2, <2>3, <2>4
  <2>6. at # 2
    BY <1>10, <2>1, <2>2, <2>3, <2>4
  <2>7. x >= 3
    BY <1>10, <2>2, <2>5, <2>6
  <2>8. at <= 3
    <3>1. at > 3 => 3 \in 1..at - 1
      BY <1>10
    <3> QED
      BY <1>10, <2>1, <2>4, <2>7, <3>1
  <2>9. at = 3 /\ at \in 1..BufSize
    BY <1>10, <2>5, <2>6, <2>8
  <2>10. m_read_buf[1] = <<"line", 1>> /\ m_read_buf[2] = <<"line", 2>>
    BY <2>4, <2>7
  <2>11. line = Text("line")
    BY <1>1, <1>3, <2>9, <2>10, LineText
  <2> QED
    BY <2>7, <2>9, <2>11
<1>8. ASSUME at = 0 \/ Unreadable(line),
             phase' = "in", m_http_base' = m_http_base, m_read_buf' = m_read_buf,
             m_read_idx' = m_read_idx, m_parse_state' = m_parse_state
      PROVE  Input'
  <2>2. Idle' /\ Fresh' /\ Mine' /\ Handling' /\ Delimited'
    BY <1>5, <1>8 DEF Input, Idle, Fresh, Mine, Handling, Delimited
  <2>3. Plain' = Plain /\ Consumed' = Consumed
    BY <1>5, <1>8 DEF Plain, Consumed
  <2>4. Stream' /\ Parsed'
    BY <1>5, <1>8, <2>3 DEF Input, Stream, Parsed
  <2>5. ASSUME Plain, x >= 3
        PROVE  ~cur.wellFormed
    <3>1. /\ m_read_buf[1] = <<"line", 1>> /\ m_read_buf[2] = <<"line", 2>>
          /\ m_read_buf[3] = CRLF
      BY <1>7, <2>5
    <3>2. 3 \in 1..BufSize /\ \A j \in 1..3 - 1 : j = 1 \/ j = 2
      BY <1>1, <1>6, <2>5
    <3>3. <<"line", 1>> \notin {CRLF, NUL} /\ <<"line", 2>> \notin {CRLF, NUL}
      BY DEF CRLF, NUL
    <3>4. \A j \in 1..3 - 1 : m_read_buf[j] \notin {CRLF, NUL}
      BY <3>1, <3>2, <3>3
    <3>5. at = 3
      BY <1>1, <1>2, <3>1, <3>2, <3>4, StrstrShape
    <3>6. line = Text("line")
      BY <1>1, <1>3, <3>1, <3>2, <3>5, LineText
    <3> QED
      BY <1>8, <2>5, <3>5, <3>6 DEF Unreadable, Plain
  <2>6. Waiting'
    <3>1. ASSUME Plain' PROVE ~cur.wellFormed \/ x < 3
      BY <1>6, <2>3, <2>5, <3>1
    <3> QED
      BY <1>5, <1>6, <1>8, <3>1 DEF Waiting
  <2> QED
    BY <2>2, <2>4, <2>6 DEF Input
<1>9. ASSUME at > 0, phase' = phase, NEW r \in ReadAs(line), AcceptLine(r, line)
      PROVE  Input'
  <2>1. /\ m_http_base' = [m_http_base EXCEPT !.req = r, !.lines = <<line>>]
        /\ RemoveLine(at) /\ m_parse_state' = "HEADERS" /\ phase' = "parse"
    BY <1>2, <1>5, <1>9 DEF AcceptLine
  <2>2. at \in 1..BufSize /\ at \in Nat
    BY <1>1, <1>9
  <2>3. m_http_base'.lines = <<line>> /\ m_http_base'.req = r
    BY <2>1 DEF ConnTypes
  <2>4. BufOK' /\ m_read_idx' < BufSize /\ m_read_buf'[m_read_idx' + 1] = NUL
    <3>1. m_read_idx' < BufSize
      BY <1>1, <1>6, <2>1, <2>2 DEF RemoveLine
    <3> QED
      BY <1>1, <2>1, <2>2, <3>1, RemoveLineShape
  <2>5. Delimited'
    BY <2>4 DEF Delimited
  <2>6. ~cut => Plain
    BY <1>5, Parsing DEF Plain, Input, Fresh
  <2>7. Mine'
    <3>1. r \in Readable /\ (~cut => r = cur)
      BY <1>9, <1>10, <2>6 DEF ReadAs
    <3> QED
      BY <1>5, <2>1, <2>3, <3>1 DEF Mine
  <2>8. Idle' /\ Fresh' /\ Handling' /\ Waiting'
    BY <1>5, <2>1, <2>6 DEF Idle, Fresh, Handling, Waiting, Plain
  <2>9. Plain' = Plain
    BY <1>5 DEF Plain
  <2>10. ASSUME Plain
         PROVE  Stream' /\ Parsed'
    <3>1. at = 3 /\ line = Text("line") /\ x >= 3
      BY <1>9, <1>10, <2>10
    <3>2. Len(m_http_base'.lines) = 1 /\ m_http_base'.lines[1] = Text("line")
      BY <2>3, <3>1
    <3>3. Consumed' = Consumed + 3
      <4>1. Consumed' = 3 * 1
        BY <2>1, <3>2 DEF Consumed
      <4> QED
        BY <4>1, <1>7, <2>10
    <3>4. Stream'
      BY <1>5, <1>6, <2>1, <2>10, <3>1, <3>3, StreamShift DEF Input
    <3>5. Len(Lines(cur)) >= 1 /\ Lines(cur)[1] = Text("line") /\ Len(Lines(cur)) \in Nat
      BY <1>7, <2>10, LinesShape
    <3>6. Len(m_http_base'.lines) \in 1..Len(Lines(cur))
      BY <3>2, <3>5
    <3>7. \A i \in 1..Len(m_http_base'.lines) : m_http_base'.lines[i] = Lines(cur)[i]
      BY <3>2, <3>5
    <3>8. Parsed'
      BY <1>5, <2>1, <3>6, <3>7 DEF Parsed
    <3> QED
      BY <3>4, <3>8
  <2>11. Stream' /\ Parsed'
    BY <2>9, <2>10 DEF Stream, Parsed
  <2> QED
    BY <2>5, <2>7, <2>8, <2>11 DEF Input
<1> QED
  BY <1>5, <1>8, <1>9

(* Where the next CRLF of the headers lies.                                *)
LEMMA HeaderAhead ==
  ASSUME ConnTypes, Input, Plain, m_parse_state = "HEADERS",
         NEW k \in Nat, k = Len(m_http_base.lines)
  PROVE  /\ cur \in Requests /\ Len(Lines(cur)) \in Nat /\ 1 <= k /\ k <= Len(Lines(cur))
         /\ (k < Len(Lines(cur)) /\ m_read_idx >= 3) => Strstr = 3
         /\ (k = Len(Lines(cur)) /\ m_read_idx >= 1) => Strstr = 1
         /\ Strstr > 0 => Strstr <= m_read_idx
         /\ (k < Len(Lines(cur)) /\ Strstr > 0) =>
              /\ Strstr = 3
              /\ SubSeq(m_read_buf, 1, Strstr - 1) = Lines(cur)[k + 1]
         /\ (k = Len(Lines(cur)) /\ Strstr > 0) => Strstr = 1
<1>1. BufOK /\ BufSize \in Nat \ {0}
  BY SizesPositive DEF ConnTypes
<1>2. PICK at \in 0..BufSize : at = Strstr
  BY <1>1, StrstrShape
<1>3. PICK x \in Nat : x = m_read_idx /\ x <= BufSize
  BY <1>1 DEF BufOK
<1>4. cur \in Requests /\ ~ragged
  BY DEF Plain, ConnTypes
<1>5. PICK n \in Nat : n = Len(Lines(cur))
  BY <1>4, LinesShape
<1>6. 1 <= k /\ k <= n
  BY <1>5 DEF Input, Parsed
<1>7. \A i \in 1..x : m_read_buf[i] = Encode(cur)[3 * k + i]
  <2>1. Consumed = 3 * k
    BY DEF Consumed
  <2> QED
    BY <1>3, <2>1 DEF Input, Stream
<1>8. at > 0 => /\ m_read_buf[at] = CRLF
                /\ \A j \in 1..at - 1 : m_read_buf[j] \notin {CRLF, NUL}
  BY <1>1, <1>2, StrstrShape
<1>9. ASSUME NEW i \in 1..BufSize, m_read_buf[i] = CRLF,
             \A j \in 1..i - 1 : m_read_buf[j] \notin {CRLF, NUL}
      PROVE  at = i
  BY <1>1, <1>2, <1>9, StrstrShape
<1>10. ASSUME at > 0 PROVE at <= x
  <2> SUFFICES ASSUME at > x PROVE FALSE
    BY <1>2, <1>3
  <2>1. ~\E i \in 1..x : m_read_buf[i] = CRLF
    BY <1>2, <1>3, <1>8, <1>10
  <2>2. x # BufSize
    BY <1>1, <1>2
  <2>3. m_read_buf[x + 1] = NUL
    BY <1>3, <1>4, <2>1, <2>2 DEF Input, Delimited
  <2>4. x + 1 = at \/ x + 1 \in 1..at - 1
    BY <1>1
  <2> QED
    BY <1>8, <1>10, <2>3, <2>4, Marks
<1>11. ASSUME k < n
       PROVE  /\ x >= 3 => at = 3
              /\ at > 0 => at = 3 /\ SubSeq(m_read_buf, 1, at - 1) = Lines(cur)[k + 1]
  <2>1. PICK h \in HeaderNames \cup {"line"} :
           /\ Lines(cur)[k + 1] = Text(h)
           /\ Encode(cur)[3 * k + 1] = <<h, 1>>
           /\ Encode(cur)[3 * k + 2] = <<h, 2>>
           /\ Encode(cur)[3 * k + 3] = CRLF
           /\ <<h, 1>> \notin {CRLF, NUL} /\ <<h, 2>> \notin {CRLF, NUL}
    BY <1>4, <1>5, <1>11, EncodeLine
  <2>2. /\ x >= 1 => m_read_buf[1] = <<h, 1>>
        /\ x >= 2 => m_read_buf[2] = <<h, 2>>
        /\ x >= 3 => m_read_buf[3] = CRLF
    BY <1>7, <2>1
  <2>3. ASSUME x >= 3 PROVE at = 3
    <3>1. 3 \in 1..BufSize /\ \A j \in 1..3 - 1 : j = 1 \/ j = 2
      BY <1>1, <1>3, <2>3
    <3>3. m_read_buf[1] = <<h, 1>> /\ m_read_buf[2] = <<h, 2>>
      BY <2>2, <2>3
    <3>2. \A j \in 1..3 - 1 : m_read_buf[j] \notin {CRLF, NUL}
      BY <2>1, <3>3, <3>1
    <3> QED
      BY <1>9, <2>2, <2>3, <3>1, <3>2
  <2>4. ASSUME at > 0 PROVE x >= 3
    <3>1. at <= x
      BY <1>10, <2>4
    <3>2. at # 1
      BY <1>8, <2>1, <2>2, <2>4, <3>1
    <3>3. at # 2
      BY <1>8, <2>1, <2>2, <2>4, <3>1
    <3> QED
      BY <2>4, <3>1, <3>2, <3>3
  <2>5. ASSUME at > 0 PROVE SubSeq(m_read_buf, 1, at - 1) = Lines(cur)[k + 1]
    <3>1. at = 3 /\ m_read_buf[1] = <<h, 1>> /\ m_read_buf[2] = <<h, 2>>
      BY <2>2, <2>3, <2>4, <2>5
    <3>2. at \in 1..BufSize
      BY <2>5
    <3> QED
      BY <1>1, <2>1, <3>1, <3>2, LineText
  <2> QED
    BY <2>3, <2>4, <2>5
<1>12. ASSUME k = n
       PROVE  /\ x >= 1 => at = 1
              /\ at > 0 => at = 1
  <2>1. Encode(cur)[3 * k + 1] = CRLF
    BY <1>4, <1>5, <1>12, EncodeShape
  <2>2. x >= 1 => m_read_buf[1] = CRLF
    BY <1>7, <2>1
  <2>3. 1 \in 1..BufSize /\ \A j \in 1..1 - 1 : FALSE
    BY <1>1
  <2>4. x >= 1 => at = 1
    BY <1>9, <2>2, <2>3
  <2> QED
    BY <1>2, <1>3, <1>10, <2>4
<1> QED
  BY <1>2, <1>3, <1>4, <1>5, <1>6, <1>10, <1>11, <1>12

LEMMA ParseHeaderInput ==
  ASSUME ConnTypes, Input, ParseHeader
  PROVE  Input'
<1>1. BufOK /\ BufSize \in Nat \ {0}
  BY SizesPositive DEF ConnTypes
<1>2. PICK at \in 0..BufSize : at = Strstr
  BY <1>1, StrstrShape
<1>3. PICK line : line = SubSeq(m_read_buf, 1, at - 1)
  OBVIOUS
<1>4. /\ phase = "parse" /\ m_parse_state = "HEADERS"
      /\ cur' = cur /\ wire' = wire /\ ragged' = ragged /\ cut' = cut
      /\ \/ /\ at = 0 /\ phase' = "in" /\ m_http_base' = m_http_base
            /\ m_read_buf' = m_read_buf /\ m_read_idx' = m_read_idx
            /\ m_parse_state' = m_parse_state
         \/ /\ at > 0 /\ RemoveLine(at) /\ phase' = phase
            /\ IF line = <<>>
               THEN m_parse_state' = "BODY" /\ m_http_base' = m_http_base
               ELSE /\ m_http_base' = [m_http_base EXCEPT !.lines = Append(m_http_base.lines, line)]
                    /\ m_parse_state' = m_parse_state
  BY <1>2, <1>3 DEF ParseHeader, client, history, input
<1>5. cut \/ cur # None
  BY <1>4, Parsing
<1>6. PICK x \in Nat : x = m_read_idx /\ x <= BufSize
  BY <1>1 DEF BufOK
<1>7. PICK q \in Seq(Seq(Units)), k \in Nat : q = m_http_base.lines /\ k = Len(q)
  BY DEF ConnTypes
<1>8. CASE at = 0
  <2>1. /\ phase' = "in" /\ m_http_base' = m_http_base
        /\ m_read_buf' = m_read_buf /\ m_read_idx' = m_read_idx
        /\ m_parse_state' = m_parse_state
    BY <1>4, <1>8
  <2>2. Idle' /\ Fresh' /\ Mine' /\ Handling' /\ Delimited'
    BY <1>4, <1>5, <2>1 DEF Input, Idle, Fresh, Mine, Handling, Delimited
  <2>3. Plain' = Plain /\ Consumed' = Consumed
    BY <1>4, <2>1 DEF Plain, Consumed
  <2>4. Stream' /\ Parsed'
    BY <1>4, <2>1, <2>3 DEF Input, Stream, Parsed
  <2>5. ASSUME Plain
        PROVE  x < (IF k < Len(Lines(cur)) THEN 3 ELSE 1)
    <3>1. /\ Len(Lines(cur)) \in Nat /\ k <= Len(Lines(cur))
          /\ (k < Len(Lines(cur)) /\ x >= 3) => at = 3
          /\ (k = Len(Lines(cur)) /\ x >= 1) => at = 1
      BY <1>2, <1>4, <1>6, <1>7, <2>5, HeaderAhead
    <3> QED
      BY <1>8, <3>1
  <2>6. Waiting'
    BY <1>4, <1>6, <1>7, <2>1, <2>3, <2>5 DEF Waiting
  <2> QED
    BY <2>2, <2>4, <2>6 DEF Input
<1>9. CASE at > 0
  <2>1. /\ RemoveLine(at) /\ phase' = "parse"
        /\ IF line = <<>>
           THEN m_parse_state' = "BODY" /\ m_http_base' = m_http_base
           ELSE /\ m_http_base' = [m_http_base EXCEPT !.lines = Append(m_http_base.lines, line)]
                /\ m_parse_state' = "HEADERS"
    BY <1>4, <1>9
  <2>2. m_parse_state' \in {"HEADERS", "BODY"}
    BY <2>1
  <2>3. /\ at \in Nat /\ BufOK' /\ m_read_idx' < BufSize /\ m_read_buf'[m_read_idx' + 1] = NUL
    <3>1. at \in Nat
      BY <1>1
    <3>2. m_read_idx' < BufSize
      BY <1>1, <1>6, <1>9, <2>1 DEF RemoveLine
    <3> QED
      BY <1>1, <2>1, <3>1, <3>2, RemoveLineShape
  <2>4. Delimited'
    BY <2>3 DEF Delimited
  <2>5. Idle' /\ Fresh' /\ Handling' /\ Waiting'
    BY <1>4, <1>5, <2>1, <2>2 DEF Idle, Fresh, Handling, Waiting
  <2>6. Mine'
    BY <1>4, <2>1 DEF Input, Mine, ConnTypes
  <2>7. Plain' = Plain
    BY <1>4 DEF Plain
  <2>8. ASSUME Plain
        PROVE  Stream' /\ Parsed'
    <3>1. PICK n \in Nat : n = Len(Lines(cur))
      BY <1>4, <1>7, <2>8, HeaderAhead
    <3>2. /\ cur \in Requests /\ 1 <= k /\ k <= n /\ at <= x
          /\ k < n => at = 3 /\ line = Lines(cur)[k + 1]
          /\ k = n => at = 1
      BY <1>2, <1>3, <1>4, <1>6, <1>7, <1>9, <2>8, <3>1, HeaderAhead
    <3>3. \A i \in 1..k : q[i] = Lines(cur)[i]
      BY <1>4, <1>7, <2>8 DEF Input, Parsed
    <3>4. Consumed = 3 * k
      BY <1>4, <1>7 DEF Consumed
    <3>5. Lines(cur) \in Seq(Seq(Units))
      BY <3>2, LinesShape
    <3>6. CASE k < n
      <4>1. line # <<>> /\ line \in Seq(Units)
        <5>1. k + 1 \in 1..Len(Lines(cur))
          BY <3>1, <3>6
        <5>2. PICK h \in HeaderNames \cup {"line"} : Lines(cur)[k + 1] = Text(h)
          BY <3>2, <5>1, LineShape
        <5> QED
          BY <3>2, <3>6, <5>2, TextShape
      <4>2. m_http_base'.lines = Append(q, line) /\ m_parse_state' = "HEADERS"
        BY <1>7, <2>1, <4>1 DEF ConnTypes
      <4>3. PICK p : p = Append(q, line)
        OBVIOUS
      <4>4. Len(p) = k + 1 /\ p[k + 1] = line /\ \A i \in 1..k : p[i] = q[i]
        <5>1. /\ Len(p) = Len(q) + 1 /\ p[Len(q) + 1] = line
              /\ \A i \in 1..Len(q) : p[i] = q[i]
          BY <4>1, <4>3, Appended
        <5> QED
          BY <1>7, <5>1
      <4>5. \A i \in 1..k + 1 : p[i] = Lines(cur)[i]
        <5> SUFFICES ASSUME NEW i \in 1..k + 1 PROVE p[i] = Lines(cur)[i]
          OBVIOUS
        <5>1. i = k + 1 \/ i \in 1..k
          OBVIOUS
        <5> QED
          BY <3>2, <3>3, <3>6, <4>4, <5>1
      <4>6. Parsed'
        <5>1. k + 1 \in 1..n
          BY <3>6
        <5> QED
          BY <1>4, <3>1, <4>2, <4>3, <4>4, <4>5, <5>1 DEF Parsed
      <4>7. Consumed' = Consumed + 3
        <5>1. Consumed' = 3 * (k + 1)
          BY <4>2, <4>3, <4>4 DEF Consumed
        <5> QED
          BY <3>4, <5>1
      <4>8. Stream'
        BY <1>4, <1>6, <2>1, <2>8, <3>2, <3>6, <4>7, StreamShift DEF Input
      <4> QED
        BY <4>6, <4>8
    <3>7. CASE k = n
      <4>1. line = <<>>
        <5>1. at - 1 = 0 /\ 0 \in 0..BufSize
          BY <1>1, <3>2, <3>7
        <5>2. Len(line) = 0 /\ line \in Seq(Units \cup {NUL})
          BY <1>1, <1>3, <5>1, LineOf
        <5> QED
          BY <5>2
      <4>2. m_http_base' = m_http_base /\ m_parse_state' = "BODY"
        BY <2>1, <4>1
      <4>3. q = Lines(cur)
        <5>1. PICK s \in Seq(Seq(Units)) : s = Lines(cur)
          BY <3>5
        <5>2. Len(s) = Len(q) /\ \A i \in 1..Len(q) : q[i] = s[i]
          BY <1>7, <3>1, <3>3, <3>7, <5>1
        <5>3. q = s
          BY <5>2, SeqEqual
        <5> QED
          BY <5>1, <5>3
      <4>4. Parsed'
        BY <1>4, <1>7, <4>2, <4>3 DEF Parsed
      <4>5. Consumed' = Consumed + 1
        BY <1>7, <3>4, <4>2 DEF Consumed
      <4>6. Stream'
        BY <1>4, <1>6, <2>1, <2>8, <3>2, <3>7, <4>5, StreamShift DEF Input
      <4> QED
        BY <4>4, <4>6
    <3> QED
      BY <3>2, <3>6, <3>7
  <2>9. Stream' /\ Parsed'
    BY <2>7, <2>8 DEF Stream, Parsed
  <2> QED
    BY <2>4, <2>5, <2>6, <2>9 DEF Input
<1> QED
  BY <1>2, <1>8, <1>9

LEMMA BodyExpected ==
  ASSUME cur \in Requests, m_http_base.lines = Lines(cur)
  PROVE  ContentLength = BodyLen(cur)
<1>1. PICK q \in Seq(HeaderNames) : q = cur.headers
  BY LinesShape
<1>2. PICK n \in Nat : n = Len(q) /\ Len(Lines(cur)) = n + 1
  BY <1>1, LinesShape
<1>3. \A j \in 2..n + 1 : Lines(cur)[j] = Text(q[j - 1])
  BY <1>1, <1>2, LinesShape
<1>4. HasBody(cur) <=> \E i \in 1..n : q[i] = "Content-Length"
  BY <1>1, <1>2 DEF HasBody, ToSet
<1>5. ASSUME NEW i \in 1..n, q[i] = "Content-Length"
      PROVE  HasHeader("Content-Length")
  <2>1. i + 1 \in 2..n + 1 /\ (i + 1) - 1 = i
    OBVIOUS
  <2>2. Lines(cur)[i + 1] = Text("Content-Length")
    BY <1>3, <1>5, <2>1
  <2> QED
    BY <1>2, <2>1, <2>2 DEF HasHeader
<1>6. ASSUME HasHeader("Content-Length")
      PROVE  \E i \in 1..n : q[i] = "Content-Length"
  <2>1. PICK j \in 2..n + 1 : Lines(cur)[j] = Text("Content-Length")
    BY <1>2, <1>6 DEF HasHeader
  <2>2. j - 1 \in 1..n /\ Text(q[j - 1]) = Text("Content-Length")
    BY <1>3, <2>1
  <2>3. q[j - 1] = "Content-Length"
    BY <2>2, TextShape
  <2> QED
    BY <2>2, <2>3
<1>7. Len(Body) = 2
  BY TextShape DEF Body
<1> QED
  BY <1>4, <1>5, <1>6, <1>7 DEF ContentLength, BodyLen

LEMMA ContentLengthType == ContentLength \in {0, 2}
<1>1. Len(Body) = 2
  BY TextShape DEF Body
<1> QED
  BY <1>1 DEF ContentLength

LEMMA ParseBodyInput ==
  ASSUME ConnTypes, Input, ParseBody
  PROVE  Input'
<1>1. BufOK /\ BufSize \in Nat \ {0}
  BY SizesPositive DEF ConnTypes
<1>2. PICK n \in Nat : n = ContentLength
  BY ContentLengthType
<1>3. PICK x \in Nat : x = m_read_idx /\ x <= BufSize
  BY <1>1 DEF BufOK
<1>4. /\ phase = "parse" /\ m_parse_state = "BODY"
      /\ cur' = cur /\ wire' = wire /\ ragged' = ragged /\ cut' = cut
      /\ \/ /\ x < n /\ phase' = "in" /\ m_http_base' = m_http_base
            /\ m_read_buf' = m_read_buf /\ m_read_idx' = m_read_idx
            /\ m_parse_state' = m_parse_state
         \/ /\ x >= n /\ RemoveLine(n) /\ phase' = phase /\ m_parse_state' = "DONE"
            /\ m_http_base' = [m_http_base EXCEPT !.body = SubSeq(m_read_buf, 1, n)]
  BY <1>2, <1>3 DEF ParseBody, client, history, input
<1>5. ~cut => cur # None /\ cur \in Requests
  BY <1>4, Parsing
<1>6. CASE x < n
  <2>1. /\ phase' = "in" /\ m_http_base' = m_http_base
        /\ m_read_buf' = m_read_buf /\ m_read_idx' = m_read_idx
        /\ m_parse_state' = m_parse_state
    BY <1>3, <1>4, <1>6
  <2>2. Idle' /\ Fresh' /\ Mine' /\ Handling' /\ Delimited'
    BY <1>4, <1>5, <2>1 DEF Input, Idle, Fresh, Mine, Handling, Delimited
  <2>3. Plain' = Plain /\ Consumed' = Consumed /\ ContentLength' = ContentLength
    BY <1>4, <2>1 DEF Plain, Consumed, ContentLength, HasHeader
  <2>4. Stream' /\ Parsed'
    BY <1>4, <2>1, <2>3 DEF Input, Stream, Parsed
  <2>5. Waiting'
    BY <1>2, <1>3, <1>4, <1>6, <2>1, <2>3 DEF Waiting
  <2> QED
    BY <2>2, <2>4, <2>5 DEF Input
<1>7. CASE x >= n
  <2>1. /\ RemoveLine(n) /\ phase' = "parse" /\ m_parse_state' = "DONE"
        /\ m_http_base' = [m_http_base EXCEPT !.body = SubSeq(m_read_buf, 1, n)]
    BY <1>3, <1>4, <1>7
  <2>2. Idle' /\ Fresh' /\ Handling' /\ Waiting' /\ Delimited'
    BY <1>4, <1>5, <2>1 DEF Idle, Fresh, Handling, Waiting, Delimited
  <2>3. Mine'
    BY <1>4, <2>1 DEF Input, Mine, ConnTypes
  <2>4. Plain' = Plain
    BY <1>4 DEF Plain
  <2>5. ASSUME Plain
        PROVE  Stream' /\ Parsed'
    <3>0. cur \in Requests
      BY <1>5, <2>5 DEF Plain
    <3>1. m_http_base.lines = Lines(cur)
      BY <1>4, <2>5 DEF Input, Parsed
    <3>2. n = BodyLen(cur)
      BY <1>2, <3>0, <3>1, BodyExpected
    <3>3. PICK l \in Nat, e \in Nat, k \in Nat :
            l = Len(wire) /\ e = Len(Encode(cur)) /\ k = 3 * Len(Lines(cur)) + 1
      <4>1. Len(wire) \in Nat /\ Len(Encode(cur)) \in Nat /\ 3 * Len(Lines(cur)) + 1 \in Nat
        BY <3>0, EncodeShape, LinesShape DEF ConnTypes
      <4> QED
        BY <4>1
    <3>4. Consumed = k /\ e = k + n
      BY <1>4, <3>0, <3>1, <3>2, <3>3, EncodeShape DEF Consumed
    <3>5. l = e - k - x /\ \A i \in 1..x : m_read_buf[i] = Encode(cur)[k + i]
      BY <1>3, <2>5, <3>3, <3>4 DEF Input, Stream
    <3>6. x = n
      BY <1>7, <3>4, <3>5
    <3>7. Consumed' = Consumed + n
      BY <1>4, <2>1, <3>3, <3>4 DEF Consumed
    <3>8. Stream'
      BY <1>3, <1>4, <2>1, <2>5, <3>6, <3>7, StreamShift DEF Input
    <3>9. m_http_base'.lines = Lines(cur) /\ m_http_base'.body = SubSeq(m_read_buf, 1, n)
      BY <2>1, <3>1 DEF ConnTypes
    <3>10. PICK s : s = SubSeq(m_read_buf, 1, n)
      OBVIOUS
    <3>11. /\ s \in Seq(Units \cup {NUL}) /\ Len(s) = n
           /\ \A i \in 1..n : s[i] = m_read_buf[i]
      <4>1. n \in 0..BufSize
        BY <1>1, <1>3, <3>6
      <4> QED
        BY <1>1, <3>10, <4>1, LineOf
    <3>12. s = IF HasBody(cur) THEN Body ELSE <<>>
      <4>1. CASE HasBody(cur)
        <5>1. n = 2
          BY <3>2, <4>1 DEF BodyLen
        <5>2. m_read_buf[1] = Encode(cur)[k + 1] /\ m_read_buf[2] = Encode(cur)[k + 2]
          BY <3>5, <3>6, <5>1
        <5>3. Encode(cur)[k + 1] = <<"body", 1>> /\ Encode(cur)[k + 2] = <<"body", 2>>
          <6>1. k + 1 = 3 * Len(Lines(cur)) + 2 /\ k + 2 = 3 * Len(Lines(cur)) + 3
            BY <3>0, <3>3, LinesShape
          <6> QED
            BY <3>0, <4>1, <6>1, EncodeShape
        <5>4. s[1] = <<"body", 1>> /\ s[2] = <<"body", 2>> /\ Len(s) = 2
          BY <3>11, <5>1, <5>2, <5>3
        <5>5. PICK b : b = Body
          OBVIOUS
        <5>6. b = <<<<"body", 1>>, <<"body", 2>>>>
          BY <5>5 DEF Body, Text
        <5>7. s = b
          BY <3>11, <5>4, <5>6
        <5> QED
          BY <4>1, <5>5, <5>7
      <4>2. CASE ~HasBody(cur)
        <5>1. n = 0
          BY <3>2, <4>2 DEF BodyLen
        <5>2. s = <<>>
          BY <3>11, <5>1
        <5> QED
          BY <4>2, <5>2
      <4> QED
        BY <4>1, <4>2
    <3>13. Parsed'
      BY <1>4, <2>1, <3>9, <3>10, <3>12 DEF Parsed
    <3> QED
      BY <3>8, <3>13
  <2>6. Stream' /\ Parsed'
    BY <2>4, <2>5 DEF Stream, Parsed
  <2> QED
    BY <2>2, <2>3, <2>6 DEF Input
<1> QED
  BY <1>2, <1>3, <1>6, <1>7

LEMMA InputStep ==
  ASSUME ConnTypes, Input, [Next]_vars
  PROVE  Input'
<1>1. CASE UNCHANGED vars
  <2>1. Onward
    BY <1>1 DEF vars, Onward, Moves, client, input, history
  <2> QED
    BY <2>1, OnwardInput
<1>2. CASE Next
  BY <1>2, InputSteps, CloseInput, SendInput, ReadInput, ParseRequestLineInput, ParseHeaderInput,
     ParseBodyInput, RenewInput, OnwardInput
<1> QED
  BY <1>1, <1>2

LEMMA InputInit == Init => Input
<1> SUFFICES ASSUME Init PROVE Input
  OBVIOUS
<1>1. /\ cur = None /\ wire = <<>> /\ m_read_idx = 0 /\ m_read_buf = EmptyBuf
      /\ m_parse_state = "REQUEST_LINE" /\ m_http_base = NoBase
      /\ ragged = FALSE /\ cut = FALSE /\ phase = "in"
  BY DEF Init
<1>2. ~Plain
  BY <1>1 DEF Plain
<1>3. Idle /\ Mine /\ Handling /\ Delimited
  BY <1>1 DEF Idle, Mine, Handling, Delimited
<1>4. Fresh
  BY <1>1, EmptyBufShape DEF Fresh
<1> QED
  BY <1>2, <1>3, <1>4 DEF Input, Stream, Parsed, Waiting

-----------------------------------------------------------------------------
(* Types.                                                                  *)

TokensOK ==
  m_tokens \in Seq([user : Users, life : 0..TokenLife]) /\ Len(m_tokens) <= MaxTokens

OutTypes ==
  /\ m_response_url \in Pages /\ m_response_data \in Built \cup {None}
  /\ m_file \in [name : Pages \cup {None}, offset : Nat, size : Nat]
  /\ m_header_sent \in BOOLEAN /\ got \in Seq({"header", "file"} \X Nat)
  /\ flaws \subseteq {"rewound", "short", "past_end"}

LEMMA TypeParts ==
  TypeOK <=> LimitsOK /\ TokensOK /\ ConnTypes /\ OutTypes /\ entitled \in BOOLEAN
BY DEF TypeOK, AccessTypeOK, LimitsOK, TokensOK, ConnTypes, BufOK, OutTypes

LEMMA RequestFields ==
  ASSUME NEW r \in Readable
  PROVE  /\ r.method \in {"GET", "POST", "other"} /\ r.url \in Pages /\ r.wellFormed \in BOOLEAN
         /\ r.tok \in 0..MaxTokens /\ r.user \in Users /\ r.big \in BOOLEAN
         /\ r.range \in [start : Int, end : Int, isValid : BOOLEAN]
BY RequestsWellFormed DEF Request, Pages

(* A request that is being handled is there.                               *)
LEMMA Handled ==
  ASSUME ConnTypes, Input,
         phase \in {"handle", "valid", "expired", "name", "route", "respond"}
  PROVE  /\ m_parse_state = "DONE" /\ m_http_base.req \in Readable
         /\ ~cut => m_http_base.req = cur
BY DEF Input, Mine, Handling

(* TokenManager only ever gains tokens, a token keeps its user, and none   *)
(* comes into force but by a login.                                        *)
TokensKept ==
  /\ TokensOK'
  /\ Tokens \subseteq Tokens'
  /\ \A n \in Tokens : m_tokens'[n].user = m_tokens[n].user
  /\ phase # "route" => \A n : InForce(n)' => InForce(n)

LEMMA TokenSteps ==
  ASSUME Next
  PROVE  UNCHANGED m_tokens \/ Tick \/ (phase = "route" /\ CreateToken(m_http_base.req.user))
<1> USE DEF access, Close, GoTo
<1>1. CASE \E r \in Requests : Send(r)
  BY <1>1 DEF Send
<1>2. CASE \E n \in 1..Len(wire) : Read(n)
  BY <1>2 DEF Read
<1>3. CASE ReadFails \/ ParseRequestLine \/ ParseHeader \/ ParseBody \/ ParseDone
  BY <1>3 DEF ReadFails, ParseRequestLine, ParseHeader, ParseBody, ParseDone
<1>4. CASE Process
  BY <1>4 DEF Process
<1>5. CASE HandleRequest \/ AuthValid \/ AuthExpired \/ AuthName \/ RouteDenied \/ RouteJson \/ RoutePage \/ RouteNotFound
  BY <1>5 DEF HandleRequest, AuthValid, AuthExpired, AuthName, RouteDenied, RouteJson, RoutePage, RouteNotFound
<1>6. CASE RouteLogin
  BY <1>6 DEF RouteLogin
<1>7. CASE RespondBuilt \/ RespondFile \/ RespondFails \/ Finish
  BY <1>7 DEF RespondBuilt, RespondFile, RespondFails, Finish
<1>8. CASE \E r \in Results, h \in 0..HeaderUnits, f \in 0..FileSize :
             Write(r, h, f) \/ WriteAgain(r, h, f)
  <2> PICK r \in Results, h \in 0..HeaderUnits, f \in 0..FileSize :
             Write(r, h, f) \/ WriteAgain(r, h, f)
    BY <1>8
  <2>1. Sending(r, h, f) \/ Close
    BY DEF Write, WriteAgain
  <2> QED
    BY <2>1 DEF Sending
<1>9. CASE Elsewhere
  BY <1>9 DEF Elsewhere, OtherAccess
<1> QED
  BY <1>1, <1>2, <1>3, <1>4, <1>5, <1>6, <1>7, <1>8, <1>9 DEF Next

LEMMA TokensStep ==
  ASSUME TokensOK, ConnTypes, Input, [Next]_vars
  PROVE  TokensKept
<1> DEFINE T == [user : Users, life : 0..TokenLife]
<1>1. CASE UNCHANGED m_tokens
  BY <1>1 DEF TokensKept, TokensOK, Tokens, InForce, IsTokenValid, IsTokenExpired
<1>2. CASE Tick
  <2>1. m_tokens' = [n \in DOMAIN m_tokens |->
          [user |-> m_tokens[n].user,
           life |-> IF m_tokens[n].life = 0 THEN 0 ELSE m_tokens[n].life - 1]]
    BY <1>2 DEF Tick, Tokens
  <2>2. PICK k \in Nat : k = Len(m_tokens) /\ DOMAIN m_tokens = 1..k /\ k <= MaxTokens
    BY DEF TokensOK
  <2>3. ASSUME NEW n \in 1..k
        PROVE  /\ m_tokens'[n] \in T /\ m_tokens'[n].user = m_tokens[n].user
               /\ m_tokens[n].life = 0 => m_tokens'[n].life = 0
    <3>1. m_tokens[n] \in T
      <4>1. m_tokens \in Seq(T)
        BY DEF TokensOK
      <4> HIDE DEF T
      <4> QED
        BY <2>2, <4>1
    <3>2. PICK u \in Users, l \in 0..TokenLife : u = m_tokens[n].user /\ l = m_tokens[n].life
      BY <3>1
    <3>3. PICK m \in 0..TokenLife : m = IF l = 0 THEN 0 ELSE l - 1
      BY LimitsPositive
    <3>5. l = 0 => m = 0
      BY <3>3
    <3>4. m_tokens'[n] = [user |-> u, life |-> m]
      BY <2>1, <2>2, <3>2, <3>3
    <3> QED
      BY <3>2, <3>4, <3>5
  <2>4. DOMAIN m_tokens' = 1..k
    BY <2>1, <2>2
  <2>6. \A n : InForce(n)' => InForce(n)
    BY <2>2, <2>3, <2>4 DEF InForce, IsTokenValid, IsTokenExpired, Tokens
  <2>5. m_tokens' \in Seq(T) /\ Len(m_tokens') = k
    BY <2>1, <2>2, <2>3
  <2> QED
    BY <2>2, <2>3, <2>4, <2>5, <2>6 DEF TokensKept, TokensOK, Tokens
<1>3. CASE phase = "route" /\ CreateToken(m_http_base.req.user)
  <2>1. m_http_base.req.user \in Users
    BY <1>3, Handled, RequestFields
  <2>10. [user |-> m_http_base.req.user, life |-> TokenLife] \in T
    BY <2>1, LimitsPositive
  <2>2. PICK x \in T : x = [user |-> m_http_base.req.user, life |-> TokenLife]
    BY <2>10, Zenon
  <2>3. m_tokens' = Append(m_tokens, x) /\ Len(m_tokens) < MaxTokens
    BY <1>3, <2>2 DEF CreateToken
  <2>4. m_tokens \in Seq(T)
    BY DEF TokensOK
  <2> HIDE DEF T
  <2>5. /\ m_tokens' \in Seq(T) /\ Len(m_tokens') = Len(m_tokens) + 1
        /\ \A i \in 1..Len(m_tokens) : m_tokens'[i] = m_tokens[i]
    <3>1. PICK w : w = m_tokens'
      OBVIOUS
    <3>2. /\ w \in Seq(T) /\ Len(w) = Len(m_tokens) + 1
          /\ \A i \in 1..Len(m_tokens) : w[i] = m_tokens[i]
      BY <2>3, <2>4, <3>1, Appended
    <3> QED
      BY <3>1, <3>2
  <2>6. PICK k \in Nat : k = Len(m_tokens) /\ k < MaxTokens /\ MaxTokens \in Nat
    BY <2>3, <2>4, LimitsPositive
  <2>7. DOMAIN m_tokens = 1..k /\ DOMAIN m_tokens' = 1..k + 1 /\ k + 1 <= MaxTokens
    BY <2>4, <2>5, <2>6
  <2>8. 1..k \subseteq 1..k + 1
    OBVIOUS
  <2>9. TokensOK'
    BY <2>5, <2>6, <2>7 DEF TokensOK, T
  <2> QED
    BY <1>3, <2>5, <2>6, <2>7, <2>8, <2>9 DEF TokensKept, Tokens
<1> QED
  BY <1>1, <1>2, <1>3, TokenSteps DEF vars, access

LEMMA UserOf ==
  ASSUME TokensOK, NEW n \in Tokens
  PROVE  m_tokens[n].user \in Users /\ n \in 1..Len(m_tokens)
<1> DEFINE T == [user : Users, life : 0..TokenLife]
<1>1. m_tokens \in Seq(T) /\ n \in DOMAIN m_tokens
  BY DEF TokensOK, Tokens
<1>2. m_tokens[n] \in T /\ n \in 1..Len(m_tokens)
  <2> HIDE DEF T
  <2> QED
    BY <1>1
<1> QED
  BY <1>2

LEMMA NameType ==
  ASSUME TokensOK, NEW n
  PROVE  /\ GetUsername(n) \in Users \cup {None}
         /\ n \in Tokens => GetUsername(n) \in {None, m_tokens[n].user}
BY UserOf DEF GetUsername, InForce, IsTokenValid

LEMMA ConnTypesStep ==
  ASSUME TokensOK, ConnTypes, Input, [Next]_vars
  PROVE  ConnTypes'
<1> DEFINE B == [req : Readable \cup {None}, lines : Seq(Seq(Units)),
                 body : Seq(Units \cup {NUL}), auth : BOOLEAN, user : Users \cup {None}]
<1>1. NoBase \in B
  <2>1. <<>> \in Seq(Seq(Units)) /\ <<>> \in Seq(Units \cup {NUL})
    OBVIOUS
  <2> QED
    BY <2>1 DEF NoBase
<1>2. BufSize \in Nat \ {0}
  BY SizesPositive
<1>3. <<>> \in Seq(Units)
  OBVIOUS
<1>4. CASE UNCHANGED vars
  BY <1>4 DEF vars, client, input, history, ConnTypes, BufOK
<1>5. CASE Close
  <2>3. m_read_buf' = EmptyBuf /\ m_read_idx' = 0
    BY <1>5 DEF Close
  <2>1. BufOK'
    BY <1>2, <2>3, EmptyBufShape DEF BufOK
  <2>2. m_http_base' \in B
    BY <1>1, <1>5 DEF Close
  <2> QED
    BY <1>3, <1>5, <2>1, <2>2 DEF Close, ConnTypes, Phases
<1>6. ASSUME NEW r \in Requests, Send(r) PROVE ConnTypes'
  <2>1. wire' \in Seq(Units)
    <3>1. PICK e \in Seq(Units) : e = Encode(r)
      BY EncodeShape
    <3>2. wire \in Seq(Units) /\ wire' = wire \o e
      BY <1>6, <3>1 DEF ConnTypes, Send
    <3> QED
      BY <3>2
  <2>2. BufOK'
    BY <1>6 DEF Send, input, ConnTypes, BufOK
  <2> QED
    BY <1>6, <2>1, <2>2 DEF Send, input, history, ConnTypes
<1>7. ASSUME NEW n \in 1..Len(wire), Read(n) PROVE ConnTypes'
  <2>1. wire' \in Seq(Units) /\ BufOK'
    BY <1>7, ReadShape
  <2>2. ragged' \in BOOLEAN
    BY <1>7 DEF Read, ConnTypes
  <2> QED
    BY <1>7, <2>1, <2>2 DEF Read, ConnTypes, Phases
<1>8. BufOK
  BY DEF ConnTypes
<1>9. PICK at \in 0..BufSize : at = Strstr
  BY <1>8, StrstrShape
<1>10. PICK line : line = SubSeq(m_read_buf, 1, at - 1)
  OBVIOUS
<1>11. ASSUME at > 0 PROVE line \in Seq(Units)
  <2>1. PICK m \in Nat : m = at - 1 /\ m \in 0..BufSize
    BY <1>2, <1>11
  <2>2. ASSUME NEW i \in 1..m PROVE m_read_buf[i] \in Units
    <3>1. m_read_buf[i] \notin {CRLF, NUL}
      BY <1>8, <1>9, <1>11, <2>1, StrstrShape
    <3>2. m_read_buf[i] \in Units \cup {NUL}
      BY <1>2, <1>8, <2>1 DEF BufOK
    <3> QED
      BY <3>1, <3>2
  <2>3. SubSeq(m_read_buf, 1, m) \in Seq(Units)
    <3>1. 1 \in Int /\ m \in Int
      OBVIOUS
    <3> QED
      BY <2>2, <3>1, SubSeqProperties
  <2> QED
    BY <1>10, <2>1, <2>3
<1>12. CASE ParseRequestLine
  <2>1. /\ cur' = cur /\ wire' = wire /\ ragged' = ragged /\ cut' = cut
        /\ \/ /\ at > 0
              /\ \E r \in Readable : m_http_base' = [m_http_base EXCEPT !.req = r, !.lines = <<line>>]
              /\ RemoveLine(at) /\ m_parse_state' = "HEADERS" /\ phase' = phase
           \/ /\ phase' = "in" /\ m_http_base' = m_http_base
              /\ m_read_buf' = m_read_buf /\ m_read_idx' = m_read_idx
              /\ m_parse_state' = m_parse_state
    BY <1>9, <1>10, <1>12 DEF ParseRequestLine, ReadAs, AcceptLine, client, history, input
  <2>2. BufOK'
    <3>1. at \in Nat
      BY <1>2
    <3>2. RemoveLine(at) => BufOK'
      BY <1>8, <3>1, RemoveLineShape
    <3> QED
      BY <1>8, <2>1, <3>2 DEF BufOK
  <2>3. m_http_base' \in B
    <3>1. at > 0 => <<line>> \in Seq(Seq(Units))
      BY <1>11
    <3>2. m_http_base \in B
      BY DEF ConnTypes
    <3> QED
      BY <2>1, <3>1, <3>2
  <2> QED
    BY <2>1, <2>2, <2>3 DEF ConnTypes, Phases
<1>13. CASE ParseHeader
  <2>1. /\ cur' = cur /\ wire' = wire /\ ragged' = ragged /\ cut' = cut
        /\ \/ /\ phase' = "in" /\ m_http_base' = m_http_base
              /\ m_read_buf' = m_read_buf /\ m_read_idx' = m_read_idx
              /\ m_parse_state' = m_parse_state
           \/ /\ at > 0 /\ RemoveLine(at) /\ phase' = phase
              /\ m_parse_state' \in {m_parse_state, "BODY"}
              /\ \/ m_http_base' = m_http_base
                 \/ m_http_base' = [m_http_base EXCEPT !.lines = Append(m_http_base.lines, line)]
    BY <1>9, <1>10, <1>13 DEF ParseHeader, client, history, input
  <2>2. BufOK'
    <3>1. at \in Nat
      BY <1>2
    <3>2. RemoveLine(at) => BufOK'
      BY <1>8, <3>1, RemoveLineShape
    <3> QED
      BY <1>8, <2>1, <3>2 DEF BufOK
  <2>3. m_http_base' \in B
    <3>1. m_http_base \in B
      BY DEF ConnTypes
    <3>2. PICK q : q = Append(m_http_base.lines, line)
      OBVIOUS
    <3>3. at > 0 => q \in Seq(Seq(Units))
      <4>1. PICK l \in Seq(Seq(Units)) : l = m_http_base.lines
        BY <3>1
      <4>2. q = Append(l, line)
        BY <3>2, <4>1
      <4> QED
        BY <1>11, <4>2, Appended
    <3> QED
      BY <2>1, <3>1, <3>2, <3>3
  <2> QED
    BY <2>1, <2>2, <2>3 DEF ConnTypes, Phases
<1>14. CASE ParseBody
  <2>1. PICK n \in Nat, x \in 0..BufSize : n = ContentLength /\ x = m_read_idx
    BY <1>8, ContentLengthType DEF BufOK
  <2>2. /\ cur' = cur /\ wire' = wire /\ ragged' = ragged /\ cut' = cut
        /\ \/ /\ phase' = "in" /\ m_http_base' = m_http_base
              /\ m_read_buf' = m_read_buf /\ m_read_idx' = m_read_idx
              /\ m_parse_state' = m_parse_state
           \/ /\ x >= n /\ RemoveLine(n) /\ phase' = phase /\ m_parse_state' = "DONE"
              /\ m_http_base' = [m_http_base EXCEPT !.body = SubSeq(m_read_buf, 1, n)]
    BY <1>14, <2>1 DEF ParseBody, client, history, input
  <2>3. BufOK'
    <3>1. RemoveLine(n) => BufOK'
      BY <1>8, RemoveLineShape
    <3> QED
      BY <1>8, <2>2, <3>1 DEF BufOK
  <2>4. m_http_base' \in B
    <3>1. x >= n => SubSeq(m_read_buf, 1, n) \in Seq(Units \cup {NUL})
      <4>1. x >= n => n \in 0..BufSize
        BY <1>2
      <4> QED
        BY <1>8, <4>1, LineOf
    <3>2. m_http_base \in B
      BY DEF ConnTypes
    <3> QED
      BY <2>2, <3>1, <3>2
  <2> QED
    BY <2>2, <2>3, <2>4 DEF ConnTypes, Phases
<1>15. CASE Renew
  <2>1. BufOK'
    BY <1>2, <1>15, EmptyBufShape DEF Renew, BufOK
  <2>2. m_http_base' \in B
    BY <1>1, <1>15 DEF Renew
  <2>3. cut' \in BOOLEAN
    BY <1>15 DEF Renew, ConnTypes
  <2> QED
    BY <1>15, <2>1, <2>2, <2>3 DEF Renew, ConnTypes, Phases
<1>16. CASE Onward
  <2>1. /\ cur' = cur /\ wire' = wire /\ m_read_idx' = m_read_idx /\ m_read_buf' = m_read_buf
        /\ m_parse_state' = m_parse_state /\ ragged' = ragged /\ cut' = cut
    BY <1>16 DEF Onward, client, input
  <2>2. m_http_base' \in B
    <3>1. PICK u \in Users \cup {None} : u = GetUsername(Token)
      BY NameType
    <3>2. m_http_base' = m_http_base \/ m_http_base' = [m_http_base EXCEPT !.user = u, !.auth = TRUE]
      BY <1>16, <3>1 DEF Onward, AuthName
    <3>3. m_http_base \in B
      BY DEF ConnTypes
    <3> QED
      BY <3>2, <3>3
  <2>3. phase' \in Phases
    BY <1>16 DEF Onward, Moves, Phases, ConnTypes
  <2>4. BufOK'
    BY <1>8, <2>1 DEF BufOK
  <2> QED
    BY <2>1, <2>2, <2>3, <2>4 DEF ConnTypes
<1> QED
  BY <1>4, <1>5, <1>6, <1>7, <1>12, <1>13, <1>14, <1>15, <1>16, InputSteps

-----------------------------------------------------------------------------
(* The answer.                                                             *)

LEMMA JsonType ==
  ASSUME NEW code \in Nat, NEW user \in Users \cup {None}
  PROVE  /\ Json(code, user) \in Built /\ Json(code, user) # None
         /\ Json(code, user).code = code /\ Json(code, user).user = user
<1>1. Json(code, user) \in Built
  BY DEF Json, Built
<1> QED
  BY <1>1, NoneIsNothing DEF Json

LEMMA RangeType ==
  ASSUME ConnTypes, Input, phase = "respond"
  PROVE  ByteRange \in [start : Int, end : Int, isValid : BOOLEAN]
BY Handled, RequestFields DEF ByteRange, NoRange

(* generateResponse: whatever the range asks for, the answer announces as  *)
(* many units as it takes from the file, and they are the ones asked for.  *)
LEMMA FileAnswerShape ==
  ASSUME NEW name, NEW r \in [start : Int, end : Int, isValid : BOOLEAN],
         NEW a, a = FileAnswer(name, r)
  PROVE  /\ a.code \in {200, 206, 416} /\ a.offset \in Nat /\ a.size \in Nat
         /\ a.length = a.size /\ a.name = name
         /\ a.code \in {200, 206} =>
              a.size > 0 /\ FileUnits(a.offset, a.offset + a.size - 1) = Wanted(r)
<1>1. PICK s \in Int, e \in Int, v \in BOOLEAN : s = r.start /\ e = r.end /\ v = r.isValid
  OBVIOUS
<1>2. FileSize \in Nat \ {0}
  BY SizesPositive
<1>3. CASE ~v
  <2>1. a = [code |-> 200, length |-> FileSize, name |-> name, offset |-> 0, size |-> FileSize]
    BY <1>1, <1>3 DEF FileAnswer
  <2>2. Wanted(r) = FileUnits(0, FileSize - 1)
    BY <1>1, <1>3 DEF Wanted
  <2>3. 0 + FileSize - 1 = FileSize - 1
    BY <1>2
  <2> QED
    BY <1>2, <2>1, <2>2, <2>3
<1>4. CASE v /\ s >= 0 /\ s < FileSize
  <2>1. PICK n \in Nat : n = IF e # -1 /\ e >= s THEN e - s + 1 ELSE FileSize - s
    <3>1. CASE e # -1 /\ e >= s
      BY <3>1
    <3>2. CASE ~(e # -1 /\ e >= s)
      BY <1>2, <1>4, <3>2
    <3> QED
      BY <3>1, <3>2
  <2>2. a = [code |-> 206, length |-> n, name |-> name, offset |-> s, size |-> n]
    BY <1>1, <1>2, <1>4, <2>1 DEF FileAnswer
  <2>3. Wanted(r) = FileUnits(s, IF e >= s THEN e ELSE FileSize - 1)
    BY <1>1, <1>4 DEF Wanted
  <2>4. n > 0 /\ s + n - 1 = IF e >= s THEN e ELSE FileSize - 1
    BY <1>2, <1>4, <2>1
  <2>5. s \in Nat
    BY <1>4
  <2> QED
    BY <2>2, <2>3, <2>4, <2>5
<1>5. CASE v /\ s = -1 /\ e > 0 /\ e <= FileSize
  <2>1. PICK o \in Nat : o = FileSize - e
    BY <1>2, <1>5
  <2>2. a = [code |-> 206, length |-> e, name |-> name, offset |-> o, size |-> e]
    BY <1>1, <1>2, <1>5, <2>1 DEF FileAnswer
  <2>3. Wanted(r) = FileUnits(FileSize - e, FileSize - 1)
    BY <1>1, <1>5 DEF Wanted
  <2>4. e \in Nat /\ o + e - 1 = FileSize - 1
    BY <1>2, <1>5, <2>1
  <2> QED
    BY <1>5, <2>1, <2>2, <2>3, <2>4
<1>6. CASE v /\ ~(s >= 0 /\ s < FileSize) /\ ~(s = -1 /\ e > 0 /\ e <= FileSize)
  <2>1. a = [code |-> 416, length |-> 0, name |-> name, offset |-> 0, size |-> 0]
    BY <1>1, <1>6 DEF FileAnswer
  <2> QED
    BY <2>1
<1> QED
  BY <1>3, <1>4, <1>5, <1>6

LEMMA FileType ==
  ASSUME ConnTypes, Input, OutTypes, RespondFile
  PROVE  /\ m_response_data' \in Built /\ m_response_url' \in Pages
         /\ m_file' \in [name : Pages, offset : Nat, size : Nat]
         /\ m_response_data'.user = None
         /\ m_response_data'.code \in {200, 206, 416}
         /\ m_response_data'.code \in {200, 206} =>
              /\ m_file'.size > 0 /\ m_file'.size = m_response_data'.length
              /\ FileUnits(m_file'.offset, m_file'.offset + m_file'.size - 1) = Wanted(ByteRange)
         /\ \/ m_file'.name \in {m_response_url, "/404.html"}
            \/ m_http_base.req.url = "/" /\ m_file'.name = "/index.html"
<1>1. PICK url : url = IF m_http_base.req.url = "/" THEN "/index.html" ELSE m_response_url
  OBVIOUS
<1>2. PICK page : page = IF url \in Files \cup {""} THEN url ELSE "/404.html"
  OBVIOUS
<1>3. PICK r \in [start : Int, end : Int, isValid : BOOLEAN] : r = ByteRange
  BY RangeType DEF RespondFile
<1>4. PICK a : a = FileAnswer(page, r)
  OBVIOUS
<1>5. /\ m_response_url' = (IF page = "" THEN m_response_url ELSE page)
      /\ m_response_data' = [code |-> a.code, user |-> None, length |-> a.length]
      /\ m_file' = [name |-> page, offset |-> a.offset, size |-> a.size]
  BY <1>1, <1>2, <1>3, <1>4 DEF RespondFile
<1>6. page \in Pages /\ m_response_url \in Pages
  <2>1. m_response_url \in Pages
    BY DEF OutTypes
  <2>3. "/index.html" \in Pages /\ "/404.html" \in Pages
    BY DEF Pages, Files
  <2>2. url \in Pages
    BY <1>1, <2>1, <2>3, Zenon
  <2> QED
    BY <1>2, <2>1, <2>2, <2>3, Zenon
<1>7. /\ a.code \in {200, 206, 416} /\ a.offset \in Nat /\ a.size \in Nat
      /\ a.length = a.size
      /\ a.code \in {200, 206} =>
           a.size > 0 /\ FileUnits(a.offset, a.offset + a.size - 1) = Wanted(r)
  BY <1>4, FileAnswerShape
<1>8. m_response_data' \in Built
  <2>1. PICK c \in Nat, l \in Nat : c = a.code /\ l = a.length
    BY <1>7
  <2>2. m_response_data' = [code |-> c, user |-> None, length |-> l]
    BY <1>5, <2>1
  <2> QED
    BY <2>2 DEF Built
<1>9. m_file' \in [name : Pages, offset : Nat, size : Nat]
  BY <1>5, <1>6, <1>7
<1>10. m_response_url' \in Pages
  BY <1>5, <1>6
<1>11. \/ page \in {m_response_url, "/404.html"}
       \/ m_http_base.req.url = "/" /\ page = "/index.html"
  BY <1>1, <1>2
<1> QED
  BY <1>3, <1>5, <1>7, <1>8, <1>9, <1>10, <1>11

LEMMA HeaderType ==
  ASSUME NEW h \in Nat
  PROVE  Header(h) \in Seq({"header", "file"} \X Nat) /\ Len(Header(h)) = h
         /\ \A i \in 1..h : Header(h)[i] = <<"header", i>>
BY DEF Header

LEMMA FileUnitsType ==
  ASSUME NEW o \in Nat, NEW f \in Nat
  PROVE  /\ FileUnits(o, o + f - 1) \in Seq({"header", "file"} \X Nat)
         /\ Len(FileUnits(o, o + f - 1)) = f
<1>1. o + f - 1 - o + 1 = f
  OBVIOUS
<1>2. FileUnits(o, o + f - 1) = [i \in 1..f |-> <<"file", o + i - 1>>]
  BY <1>1 DEF FileUnits
<1>3. \A i \in 1..f : o + i - 1 \in Nat
  OBVIOUS
<1> QED
  BY <1>2, <1>3

LEMMA GotType ==
  ASSUME OutTypes, NEW h \in Nat, NEW f \in Nat, NEW o \in Nat,
         NEW g, g = got \o Header(h) \o FileUnits(o, o + f - 1)
  PROVE  g \in Seq({"header", "file"} \X Nat)
<1>1. PICK S : S = {"header", "file"} \X Nat
  OBVIOUS
<1>2. PICK a, b : a = Header(h) /\ b = FileUnits(o, o + f - 1)
  OBVIOUS
<1>3. got \in Seq(S) /\ a \in Seq(S) /\ b \in Seq(S)
  BY <1>1, <1>2, HeaderType, FileUnitsType DEF OutTypes
<1>4. PICK c : c = got \o a
  OBVIOUS
<1>5. c \in Seq(S)
  BY <1>3, <1>4, Joined
<1>6. g = c \o b
  BY <1>2, <1>4
<1>7. g \in Seq(S)
  BY <1>3, <1>5, <1>6, Joined
<1> QED
  BY <1>1, <1>7

LEMMA SendingTypes ==
  ASSUME OutTypes, NEW r \in Results, NEW h \in 0..HeaderUnits, NEW f \in 0..FileSize,
         Sending(r, h, f)
  PROVE  OutTypes'
<1>1. h \in Nat /\ f \in Nat /\ m_file.offset \in Nat
  BY SizesPositive DEF HeaderUnits, OutTypes
<1>2. got' \in Seq({"header", "file"} \X Nat)
  <2>1. PICK g : g = got \o Header(h) \o FileUnits(m_file.offset, m_file.offset + f - 1)
    OBVIOUS
  <2>2. g \in Seq({"header", "file"} \X Nat)
    BY <1>1, <2>1, GotType
  <2>3. got' = <<>> \/ got' = g
    BY <2>1 DEF Sending
  <2>4. <<>> \in Seq({"header", "file"} \X Nat)
    OBVIOUS
  <2> QED
    BY <2>2, <2>3, <2>4
<1>3. m_file' \in [name : Pages \cup {None}, offset : Nat, size : Nat]
  BY DEF Sending, OutTypes, NoFile
<1>4. m_header_sent' \in BOOLEAN
  BY DEF Sending, OutTypes
<1>5. flaws' \subseteq {"rewound", "short", "past_end"}
  BY DEF Sending, OutTypes
<1>6. m_response_url' = m_response_url /\ m_response_data' = m_response_data
  BY DEF Sending
<1> QED
  BY <1>2, <1>3, <1>4, <1>5, <1>6 DEF OutTypes

(* The steps as the output side sees them.                                 *)
Answering ==
  /\ m_response_data' \in Built \cup {None}
  /\ UNCHANGED <<m_response_url, m_file, m_header_sent, got, flaws>>

LEMMA AnswerType ==
  ASSUME NEW d \in Built \cup {None}, Answer(d)
  PROVE  Answering
BY DEF Answer, Answering, history

LEMMA OutputSteps ==
  ASSUME ConnTypes, Input, OutTypes, Next
  PROVE  \/ Close
         \/ \E r \in Requests : Send(r)
         \/ Answering
         \/ RoutePage
         \/ RespondFile
         \/ \E r \in Results, h \in 0..HeaderUnits, f \in 0..FileSize : Sending(r, h, f)
         \/ Finish
<1>1. CASE (\E r \in Requests : Send(r)) \/ RoutePage \/ RespondFile \/ Finish
  BY <1>1
<1>2. CASE ReadFails \/ RespondFails
  BY <1>2 DEF ReadFails, RespondFails
<1>3. m_response_data' = m_response_data => m_response_data' \in Built \cup {None}
  BY DEF OutTypes
<1>4. CASE \E n \in 1..Len(wire) : Read(n)
  BY <1>3, <1>4 DEF Read, Answering, output
<1>5. CASE ParseRequestLine
  BY <1>3, <1>5 DEF ParseRequestLine, Answering, output, history
<1>6. CASE ParseHeader
  BY <1>3, <1>6 DEF ParseHeader, Answering, output, history
<1>7. CASE ParseBody
  BY <1>3, <1>7 DEF ParseBody, Answering, output, history
<1>8. CASE ParseDone \/ AuthValid \/ AuthExpired
  BY <1>3, <1>8 DEF ParseDone, AuthValid, AuthExpired, GoTo, Answering, output, history
<1>9. CASE AuthName
  BY <1>3, <1>9 DEF AuthName, Answering, output, history
<1>10. CASE RespondBuilt
  BY <1>3, <1>10 DEF RespondBuilt, Answering, output, history
<1>11. CASE Elsewhere
  BY <1>3, <1>11 DEF Elsewhere, Answering, output, history
<1>12. /\ Json(429, None) \in Built /\ Json(403, None) \in Built
       /\ Json(401, None) \in Built /\ Json(404, None) \in Built
  BY JsonType
<1>13. CASE Process
  BY <1>3, <1>12, <1>13 DEF Process, Answering, history
<1>14. CASE HandleRequest
  <2>1. m_response_data' \in {m_response_data, Json(403, None)}
    BY <1>14 DEF HandleRequest
  <2> QED
    BY <1>12, <1>14, <2>1 DEF HandleRequest, Answering, OutTypes
<1>15. CASE RouteDenied \/ RouteNotFound
  BY <1>12, <1>15, AnswerType DEF RouteDenied, RouteNotFound
<1>16. CASE RouteLogin
  <2>1. Json(0, m_http_base.req.user) \in Built
    BY <1>16, Handled, RequestFields, JsonType DEF RouteLogin
  <2>2. Answer(Json(429, None)) \/ Answer(Json(0, m_http_base.req.user)) \/ Answer(None)
    BY <1>16 DEF RouteLogin
  <2> QED
    BY <1>12, <2>1, <2>2, AnswerType
<1>17. CASE RouteJson
  <2>1. Json(0, m_http_base.user) \in Built
    BY JsonType DEF ConnTypes
  <2> QED
    BY <1>17, <2>1, AnswerType DEF RouteJson
<1>18. CASE \E r \in Results, h \in 0..HeaderUnits, f \in 0..FileSize :
             Write(r, h, f) \/ WriteAgain(r, h, f)
  <2> PICK r \in Results, h \in 0..HeaderUnits, f \in 0..FileSize :
             Write(r, h, f) \/ WriteAgain(r, h, f)
    BY <1>18
  <2>1. Sending(r, h, f) \/ Close
    BY DEF Write, WriteAgain
  <2> QED
    BY <2>1
<1> QED
  BY <1>1, <1>2, <1>4, <1>5, <1>6, <1>7, <1>8, <1>9, <1>10, <1>11, <1>13, <1>14, <1>15, <1>16,
     <1>17, <1>18 DEF Next

LEMMA OutTypesStep ==
  ASSUME ConnTypes, Input, OutTypes, [Next]_vars
  PROVE  OutTypes'
<1> DEFINE F == [name : Pages \cup {None}, offset : Nat, size : Nat]
           G == Seq({"header", "file"} \X Nat)
<1>1. NoFile \in F
  BY DEF NoFile
<1>2. <<>> \in G
  OBVIOUS
<1>3. "" \in Pages
  BY DEF Pages
<1>4. CASE UNCHANGED vars
  BY <1>4 DEF vars, output, history, OutTypes
<1>5. CASE Close
  <2>1. /\ m_response_url' = "" /\ m_response_data' = None /\ m_file' = NoFile
        /\ m_header_sent' = FALSE /\ got' = <<>> /\ flaws' = {}
    BY <1>5 DEF Close
  <2> HIDE DEF F, G
  <2>2. m_file' \in F /\ got' \in G
    BY <1>1, <1>2, <2>1
  <2> QED
    BY <1>3, <2>1, <2>2 DEF OutTypes, F, G
<1>6. ASSUME NEW r \in Requests, Send(r) PROVE OutTypes'
  <2>1. /\ m_response_url' = m_response_url /\ m_response_data' = m_response_data
        /\ m_file' = m_file /\ m_header_sent' = m_header_sent /\ got' = <<>> /\ flaws' = flaws
    BY <1>6 DEF Send, history
  <2> QED
    BY <1>2, <2>1 DEF OutTypes
<1>7. CASE Answering
  BY <1>7 DEF Answering, OutTypes
<1>8. CASE RoutePage
  <2>1. m_response_url' \in {"/register_success.html", "/register_error.html", m_http_base.req.url}
    BY <1>8 DEF RoutePage
  <2>2. m_http_base.req.url \in Pages
    BY <1>8, Handled, RequestFields DEF RoutePage
  <2>3. m_response_url' \in Pages
    BY <2>1, <2>2 DEF Pages, Files
  <2> QED
    BY <1>8, <2>3 DEF RoutePage, OutTypes, history
<1>9. CASE RespondFile
  <2>1. /\ m_response_data' \in Built /\ m_response_url' \in Pages
        /\ m_file' \in [name : Pages, offset : Nat, size : Nat]
    BY <1>9, FileType
  <2>2. m_file' \in F
    BY <2>1
  <2>3. /\ m_header_sent' = m_header_sent /\ got' = got
        /\ flaws' \in {flaws, flaws \cup {"past_end"}}
    BY <1>9 DEF RespondFile
  <2> QED
    BY <2>1, <2>2, <2>3 DEF OutTypes
<1>10. ASSUME NEW r \in Results, NEW h \in 0..HeaderUnits, NEW f \in 0..FileSize, Sending(r, h, f)
       PROVE  OutTypes'
  BY <1>10, SendingTypes
<1>11. CASE Finish
  <2>1. CASE ~Close
    <3>1. /\ m_response_data' = None /\ m_header_sent' = FALSE /\ flaws' = {}
          /\ m_response_url' = m_response_url /\ m_file' = m_file /\ got' = got
      BY <1>11, <2>1 DEF Finish
    <3> QED
      BY <3>1 DEF OutTypes
  <2> QED
    BY <1>5, <2>1
<1> QED
  BY <1>4, <1>5, <1>6, <1>7, <1>8, <1>9, <1>10, <1>11, OutputSteps

-----------------------------------------------------------------------------
(* The inductive invariant of the input side.                              *)

Sound == TypeOK /\ Counted /\ Input

LEMMA TypeInit == Init => Sound
<1> SUFFICES ASSUME Init PROVE Sound
  OBVIOUS
<1>1. LimitsOK /\ Counted /\ Input
  BY LimitsInit, InputInit
<1>2. TokensOK
  <2>1. m_tokens = <<>>
    BY DEF Init, AccessInit
  <2> QED
    BY <2>1, LimitsPositive DEF TokensOK
<1>3. ConnTypes
  <2>1. BufOK
    <3>1. m_read_buf = EmptyBuf /\ m_read_idx = 0
      BY DEF Init
    <3> QED
      BY <3>1, EmptyBufShape, SizesPositive DEF BufOK
  <2>2. m_http_base \in [req : Readable \cup {None}, lines : Seq(Seq(Units)),
                         body : Seq(Units \cup {NUL}), auth : BOOLEAN,
                         user : Users \cup {None}]
    <3>1. <<>> \in Seq(Seq(Units)) /\ <<>> \in Seq(Units \cup {NUL})
      OBVIOUS
    <3> QED
      BY <3>1 DEF Init, NoBase
  <2>3. wire \in Seq(Units)
    <3>1. wire = <<>>
      BY DEF Init
    <3>2. <<>> \in Seq(Units)
      OBVIOUS
    <3> QED
      BY <3>1, <3>2
  <2> QED
    BY <2>1, <2>2, <2>3 DEF Init, ConnTypes, Phases
<1>4. OutTypes
  <2>1. m_file \in [name : Pages \cup {None}, offset : Nat, size : Nat]
    BY DEF Init, NoFile
  <2>2. got \in Seq({"header", "file"} \X Nat)
    <3>1. got = <<>>
      BY DEF Init
    <3>2. <<>> \in Seq({"header", "file"} \X Nat)
      OBVIOUS
    <3> QED
      BY <3>1, <3>2
  <2> QED
    BY <2>1, <2>2 DEF Init, OutTypes, Pages
<1>5. entitled \in BOOLEAN
  BY DEF Init
<1> QED
  BY <1>1, <1>2, <1>3, <1>4, <1>5, TypeParts DEF Sound

(* Only handleRequest and a new request change what the token is worth.    *)
LEMMA EntitledStep ==
  ASSUME entitled \in BOOLEAN, [Next]_vars
  PROVE  /\ entitled' \in BOOLEAN
         /\ entitled' = entitled \/ HandleRequest \/ Close \/ Finish
<1> USE DEF history, GoTo, Answer
<1>1. CASE UNCHANGED vars
  BY <1>1 DEF vars
<1>2. CASE Close \/ Finish
  BY <1>2 DEF Close, Finish
<1>3. CASE \E r \in Requests : Send(r)
  BY <1>3 DEF Send
<1>4. CASE \E n \in 1..Len(wire) : Read(n)
  BY <1>4 DEF Read
<1>5. CASE ReadFails \/ RespondFails
  BY <1>2, <1>5 DEF ReadFails, RespondFails
<1>6. CASE Process \/ ParseRequestLine \/ ParseHeader \/ ParseBody \/ ParseDone
  BY <1>6 DEF Process, ParseRequestLine, ParseHeader, ParseBody, ParseDone
<1>7. CASE HandleRequest
  BY <1>7 DEF HandleRequest
<1>8. CASE AuthValid \/ AuthExpired \/ AuthName
  BY <1>8 DEF AuthValid, AuthExpired, AuthName
<1>9. CASE RouteDenied \/ RouteLogin \/ RouteJson \/ RoutePage \/ RouteNotFound
  BY <1>9 DEF RouteDenied, RouteLogin, RouteJson, RoutePage, RouteNotFound
<1>10. CASE RespondBuilt \/ RespondFile \/ Elsewhere
  BY <1>10 DEF RespondBuilt, RespondFile, Elsewhere
<1>11. CASE \E r \in Results, h \in 0..HeaderUnits, f \in 0..FileSize :
             Write(r, h, f) \/ WriteAgain(r, h, f)
  <2> PICK r \in Results, h \in 0..HeaderUnits, f \in 0..FileSize :
             Write(r, h, f) \/ WriteAgain(r, h, f)
    BY <1>11
  <2>1. Sending(r, h, f) \/ Close
    BY DEF Write, WriteAgain
  <2> QED
    BY <2>1, <1>2 DEF Sending
<1> QED
  BY <1>1, <1>2, <1>3, <1>4, <1>5, <1>6, <1>7, <1>8, <1>9, <1>10, <1>11 DEF Next

LEMMA SoundStep ==
  ASSUME Sound, [Next]_vars
  PROVE  Sound'
<1>1. LimitsOK /\ Counted /\ TokensOK /\ ConnTypes /\ OutTypes /\ Input /\ entitled \in BOOLEAN
  BY TypeParts DEF Sound
<1>2. /\ LimitsOK' /\ Counted' /\ TokensOK' /\ ConnTypes' /\ OutTypes' /\ Input'
      /\ (entitled \in BOOLEAN)'
  BY <1>1, LimitsStep, TokensStep, ConnTypesStep, OutTypesStep, InputStep, EntitledStep
     DEF TokensKept
<1>3. TypeOK'
  BY <1>2, TypeParts, PTL
<1> QED
  BY <1>2, <1>3 DEF Sound

LEMMA Soundness == Spec => []Sound
<1>1. Init => Sound
  BY TypeInit
<1>2. Sound /\ [Next]_vars => Sound'
  BY SoundStep
<1> QED
  BY <1>1, <1>2, PTL DEF Spec

(* Whatever the client sends and however it arrives, read() writes nothing *)
(* behind m_read_buf, the parser keeps lines it has seen, and the answer   *)
(* names a user and a page that exist.                                     *)
THEOREM TypeCorrect == Spec => []TypeOK
<1>1. Sound => TypeOK
  BY DEF Sound
<1> QED
  BY <1>1, Soundness, PTL

(* parseHttpRequest, for every request, every size of m_read_buf and every *)
(* way a request is cut into reads: the lines and the body it ends up with *)
(* are those that were sent, although strstr looks behind m_read_idx, but  *)
(* for a read that ended in the header line it began in and for the rest   *)
(* of a request that a 429 cut.                                            *)
THEOREM RequestsParsedAsSent == Spec => []ParsedAsSent
<1>1. Sound => ParsedAsSent
  <2> SUFFICES ASSUME Sound, m_parse_state = "DONE", ~ragged, ~cut
               PROVE  /\ m_http_base.lines = Lines(cur)
                      /\ m_http_base.body = (IF HasBody(cur) THEN Body ELSE <<>>)
    BY DEF ParsedAsSent
  <2>1. Plain
    BY DEF Sound, Input, Idle, Plain
  <2> QED
    BY <2>1 DEF Sound, Input, Parsed
<1> QED
  BY <1>1, Soundness, PTL

LEMMA NoneWaits ==
  ASSUME Sound, phase = "in", wire = <<>>, cur # None, ~ragged, ~cut
  PROVE  ~cur.wellFormed \/ cur.big
<1>1. ConnTypes /\ Plain /\ Stream /\ Parsed /\ Waiting
  BY TypeParts DEF Sound, Input, Plain
<1>2. cur \in Requests
  BY <1>1 DEF ConnTypes
<1>3. Len(wire) = 0
  OBVIOUS
<1>4. PICK n \in Nat : n = Len(Lines(cur))
  BY <1>2, LinesShape
<1>5. n >= 1
  BY <1>2, <1>4, LinesShape
<1>6. Len(Encode(cur)) = 3 * n + 1 + BodyLen(cur) /\ BodyLen(cur) \in {0, 2}
  BY <1>2, <1>4, EncodeShape DEF BodyLen
<1>7. Consumed \in Nat /\ m_read_idx \in Nat
  BY <1>1, ConsumedType DEF ConnTypes, BufOK, Plain
<1>8. m_read_idx = Len(Encode(cur)) - Consumed
  <2>1. 0 = Len(Encode(cur)) - Consumed - m_read_idx
    BY <1>1, <1>3 DEF Stream
  <2>2. Len(Encode(cur)) \in Nat
    BY <1>2, EncodeShape
  <2> QED
    BY <2>1, <2>2, <1>7
<1>9. CASE m_parse_state = "REQUEST_LINE"
  <2>1. Consumed = 0
    BY <1>9 DEF Consumed
  <2>2. m_read_idx >= 3
    BY <2>1, <1>5, <1>6, <1>7, <1>8
  <2> QED
    BY <2>2, <1>1, <1>7, <1>9 DEF Waiting
<1>10. CASE m_parse_state = "HEADERS"
  <2>1. PICK k \in Nat : k = Len(m_http_base.lines)
    BY <1>1 DEF ConnTypes
  <2>2. k <= n /\ m_read_idx < (IF k < n THEN 3 ELSE 1)
    BY <2>1, <1>1, <1>4, <1>10 DEF Parsed, Waiting
  <2>3. Consumed = 3 * k
    BY <1>10, <2>1 DEF Consumed
  <2> QED
    BY <2>2, <2>3, <1>6, <1>7, <1>8
<1>11. CASE m_parse_state = "BODY"
  <2>1. m_http_base.lines = Lines(cur)
    BY <1>1, <1>11 DEF Parsed
  <2>2. m_read_idx < BodyLen(cur)
    BY <2>1, <1>1, <1>2, <1>11, BodyExpected DEF Waiting
  <2>3. Consumed = 3 * n + 1
    BY <1>11, <2>1, <1>4 DEF Consumed
  <2> QED
    BY <2>2, <2>3, <1>6, <1>7, <1>8
<1>12. CASE m_parse_state = "DONE"
  BY <1>1, <1>12 DEF Waiting
<1> QED
  BY <1>1, <1>9, <1>10, <1>11, <1>12 DEF ConnTypes

(* process: a connection that waits for input while everything sent has    *)
(* been received owes no answer, whatever the request and the reads, but   *)
(* for a malformed request line and an answer too big, which the code      *)
(* leaves unanswered, and the two exceptions of the theorem before.        *)
THEOREM NoRequestForgotten == Spec => []NothingForgotten
<1>1. Sound => NothingForgotten
  BY NoneWaits DEF NothingForgotten, Sound, TypeOK
<1> QED
  BY <1>1, Soundness, PTL

-----------------------------------------------------------------------------
(* The output side: what the request may have, the answer, what was sent.  *)

Sends == {"out", "again", "sent"}

(* Before write() is called nothing was sent and no file is open.          *)
Unsent ==
  /\ phase \notin Sends => m_header_sent = FALSE /\ flaws = {}
  /\ phase \notin {"out", "again"} => m_file = NoFile
  /\ (phase \notin Sends /\ cur # None /\ ~cut) => got = <<>>

(* What TokenManager has said so far was right when the request came.      *)
Shown ==
  /\ phase \in {"expired", "name"} => Token \in Tokens
  /\ (phase \in {"valid", "expired"} /\ InForce(Token)) => entitled
  /\ phase = "name" => entitled

(* The identity is that of a token in force when the request came.         *)
Identity ==
  /\ m_http_base.auth => /\ m_parse_state = "DONE" /\ Token \in Tokens /\ entitled
                         /\ m_http_base.user \in {None, m_tokens[Token].user}
  /\ ~m_http_base.auth => m_http_base.user = None
  /\ Shown

(* An answer of this code that names this user may go to the client.       *)
Fits(code, user) ==
  /\ m_http_base.req.url \in Blacklist => code = 403
  /\ (code \notin {401, 403} /\ m_http_base.req.url \notin Whitelist)
       => Token \in Tokens /\ entitled /\ user \in {None, m_tokens[Token].user}

(* What passed the blacklist is not on it.                                 *)
Allowed ==
  phase \in {"valid", "expired", "name", "route"} => m_http_base.req.url \notin Blacklist

RegisterPages == {"/register_success.html", "/register_error.html"}

(* A request that nothing was built for may have its page.                 *)
Paged ==
  (phase = "respond" /\ m_response_data = None) =>
    /\ Fits(200, None)
    /\ \/ m_http_base.req.url = "/login"
       \/ m_http_base.req.url = "/register" /\ m_response_url \in RegisterPages
       \/ m_response_url = m_http_base.req.url

(* A file is open for its request only.                                    *)
Named ==
  (phase \in {"out", "again"} /\ m_file.name # None) =>
    \/ m_file.name \in {m_http_base.req.url, "/404.html"}
    \/ m_http_base.req.url = "/" /\ m_file.name = "/index.html"
    \/ m_http_base.req.url = "/register" /\ m_file.name \in RegisterPages
    \/ m_http_base.req.url = "/login"

(* An answer that was built fits the request, wherever it is kept.         *)
Fitting ==
  (m_response_data # None /\ m_response_data.code # 429) =>
    m_parse_state = "DONE" /\ Fits(m_response_data.code, m_response_data.user)

(* There is an answer when it is sent; before, it is none of a file.       *)
Answered ==
  /\ phase \in Sends => m_response_data # None
  /\ (phase \notin Sends /\ m_response_data # None) => m_response_data.code \notin {200, 206}

(* The part of the file that is open is the one asked for.                 *)
Opened ==
  (phase \in {"out", "again"} /\ ~cut /\ m_response_data.code \in {200, 206}) =>
    /\ m_file.name # None /\ m_file.size > 0 /\ m_file.size = m_response_data.length
    /\ FileUnits(m_file.offset, m_file.offset + m_file.size - 1) = Wanted(ByteRange)

(* Between two calls of write() the client has the header or nothing.      *)
Halfway ==
  (phase \in {"out", "again"} /\ ~cut /\ "rewound" \notin flaws) =>
    got = IF m_header_sent THEN Header(HeaderUnits) ELSE <<>>

(* With Sound, the inductive invariant of the output side.                 *)
Output ==
  /\ Unsent /\ Identity /\ Allowed /\ Paged /\ Named /\ Fitting /\ Answered
  /\ Opened /\ Halfway /\ AnswerWhole

(* A new HttpBase has no identity, and nothing was looked up for it.       *)
LEMMA NobodyYet ==
  ASSUME m_http_base = NoBase, phase \in {"in", "closed"}
  PROVE  Identity
BY DEF Identity, Shown, NoBase

LEMMA OutputInit == Init => Output
<1> SUFFICES ASSUME Init PROVE Output
  OBVIOUS
<1>1. /\ cur = None /\ got = <<>> /\ phase = "in" /\ m_http_base = NoBase
      /\ m_response_data = None /\ m_file = NoFile /\ m_header_sent = FALSE /\ flaws = {}
  BY DEF Init
<1>2. Unsent /\ Allowed /\ Paged /\ Named /\ Fitting /\ Answered /\ Opened /\ Halfway
  BY <1>1 DEF Unsent, Allowed, Paged, Named, Fitting, Answered, Opened, Halfway, Sends
<1>3. Identity
  BY <1>1, NobodyYet
<1>4. AnswerWhole
  BY <1>1 DEF AnswerWhole
<1> QED
  BY <1>2, <1>3, <1>4 DEF Output

LEMMA CloseOutput ==
  ASSUME Close
  PROVE  Output'
<1>1. /\ cur' = None /\ got' = <<>> /\ phase' = "closed" /\ m_http_base' = NoBase
      /\ m_response_data' = None /\ m_file' = NoFile /\ m_header_sent' = FALSE /\ flaws' = {}
  BY DEF Close
<1>2. Unsent' /\ Allowed' /\ Paged' /\ Named' /\ Fitting' /\ Answered' /\ Opened' /\ Halfway'
  BY <1>1 DEF Unsent, Allowed, Paged, Named, Fitting, Answered, Opened, Halfway, Sends
<1>3. Identity'
  BY <1>1 DEF Identity, Shown, NoBase
<1>4. AnswerWhole'
  BY <1>1 DEF AnswerWhole
<1> QED
  BY <1>2, <1>3, <1>4 DEF Output

(* The request is the one it was, lines included.                          *)
SameRequest ==
  /\ m_parse_state' = m_parse_state /\ (entitled => entitled')
  /\ m_http_base'.req = m_http_base.req /\ m_http_base'.lines = m_http_base.lines

LEMMA SameToken ==
  ASSUME SameRequest
  PROVE  Token' = Token /\ ByteRange' = ByteRange /\ KeepAlive' = KeepAlive
BY DEF SameRequest, Token, ByteRange, KeepAlive, HasHeader

(* An answer that fits the request goes on fitting it.                     *)
LEMMA FitsKept ==
  ASSUME TokensKept, SameRequest, NEW code, NEW user, Fits(code, user)
  PROVE  Fits(code, user)'
<1>1. Token' = Token /\ m_http_base'.req = m_http_base.req /\ (entitled => entitled')
  BY SameToken DEF SameRequest
<1>2. Token \in Tokens => /\ Token \in Tokens'
                          /\ m_tokens'[Token].user = m_tokens[Token].user
  BY DEF TokensKept
<1> QED
  BY <1>1, <1>2 DEF Fits

LEMMA FittingKept ==
  ASSUME TokensKept, SameRequest, Fitting, m_response_data' = m_response_data
  PROVE  Fitting'
<1>1. PICK d, c, u : d = m_response_data /\ c = d.code /\ u = d.user
  OBVIOUS
<1>2. ASSUME d # None, c # 429 PROVE m_parse_state = "DONE" /\ Fits(c, u)'
  <2>1. m_parse_state = "DONE" /\ Fits(c, u)
    BY <1>1, <1>2 DEF Fitting
  <2> QED
    BY <2>1, FitsKept
<1>3. m_response_data' = d /\ m_response_data'.code = c /\ m_response_data'.user = u
  BY <1>1
<1> QED
  BY <1>2, <1>3 DEF Fitting, Fits, SameRequest

LEMMA IdentityKept ==
  ASSUME TokensKept, SameRequest, Identity, Shown',
         m_http_base'.auth = m_http_base.auth, m_http_base'.user = m_http_base.user
  PROVE  Identity'
<1>1. Token' = Token /\ (entitled => entitled') /\ m_parse_state' = m_parse_state
  BY SameToken DEF SameRequest
<1>2. Token \in Tokens => /\ Token \in Tokens'
                          /\ m_tokens'[Token].user = m_tokens[Token].user
  BY DEF TokensKept
<1> QED
  BY <1>1, <1>2 DEF Identity

(* Nobody asks for more before the answer, unless a request was cut.       *)
LEMMA SendOutput ==
  ASSUME ConnTypes, Input, Output, TokensKept, NEW r \in Requests, Send(r)
  PROVE  Output'
<1>1. /\ phase' = phase /\ got' = <<>> /\ m_http_base' = m_http_base /\ cut' = cut
      /\ m_response_data' = m_response_data /\ m_file' = m_file
      /\ m_header_sent' = m_header_sent /\ flaws' = flaws
      /\ cur = None /\ m_parse_state' = m_parse_state /\ entitled' = entitled
      /\ m_response_url' = m_response_url /\ m_tokens' = m_tokens
  BY DEF Send, history, input, access
<1>2. SameRequest
  BY <1>1 DEF SameRequest
<1>3. cut \/ phase \notin Sends
  BY <1>1 DEF Input, Idle, Sends
<1>4. Unsent' /\ Answered'
  BY <1>1 DEF Output, Unsent, Answered
<1>5. Allowed' /\ Named'
  BY <1>1 DEF Output, Allowed, Named
<1>6. Fitting'
  BY <1>1, <1>2, FittingKept DEF Output
<1>7. Opened' /\ Halfway' /\ AnswerWhole'
  BY <1>1, <1>3 DEF Opened, Halfway, AnswerWhole, Sends
<1>8. Identity'
  <2>1. Shown'
    <3>1. Token' = Token
      BY <1>2, SameToken
    <3>2. Tokens' = Tokens /\ (InForce(Token)' <=> InForce(Token))
      BY <1>1, <3>1 DEF Tokens, InForce, IsTokenValid, IsTokenExpired
    <3> QED
      BY <1>1, <3>1, <3>2 DEF Output, Identity, Shown
  <2> QED
    BY <2>1, <1>1, <1>2, IdentityKept DEF Output
<1>9. Paged'
  <2>1. Fits(200, None) => Fits(200, None)'
    BY <1>2, FitsKept
  <2> QED
    BY <2>1, <1>1 DEF Output, Paged
<1> QED
  BY <1>4, <1>5, <1>6, <1>7, <1>8, <1>9 DEF Output

(* The steps before the request is handled, and the one that gives it up:  *)
(* the request is being parsed, or stays as it is.                         *)
Feeds ==
  /\ phase \notin Sends /\ phase' \in {"in", "process", "parse", "handle"}
  /\ UNCHANGED <<cur, cut, flaws, entitled, output>>
  /\ m_http_base'.auth = m_http_base.auth /\ m_http_base'.user = m_http_base.user
  /\ m_parse_state # "DONE" \/ SameRequest

LEMMA FeedsOutput ==
  ASSUME Output, TokensKept, Feeds
  PROVE  Output'
<1>1. /\ phase \notin Sends /\ phase' \in {"in", "process", "parse", "handle"}
      /\ cur' = cur /\ cut' = cut /\ flaws' = flaws /\ got' = got
      /\ m_response_data' = m_response_data /\ m_file' = m_file
      /\ m_header_sent' = m_header_sent
      /\ m_http_base'.auth = m_http_base.auth /\ m_http_base'.user = m_http_base.user
  BY DEF Feeds, output
<1>2. Unsent' /\ Answered'
  BY <1>1 DEF Output, Unsent, Answered, Sends
<1>3. Allowed' /\ Paged' /\ Named' /\ Opened' /\ Halfway' /\ AnswerWhole'
  BY <1>1 DEF Allowed, Paged, Named, Opened, Halfway, AnswerWhole
<1>4. Shown'
  BY <1>1 DEF Shown
<1>5. CASE SameRequest
  <2>1. Fitting' /\ Identity'
    BY <1>1, <1>4, <1>5, FittingKept, IdentityKept DEF Output
  <2> QED
    BY <1>2, <1>3, <2>1 DEF Output
<1>6. CASE m_parse_state # "DONE"
  <2>1. /\ ~m_http_base.auth /\ m_http_base.user = None
        /\ m_response_data # None => m_response_data.code = 429
    BY <1>6 DEF Output, Identity, Fitting
  <2>2. Fitting' /\ Identity'
    BY <1>1, <1>4, <2>1 DEF Fitting, Identity
  <2> QED
    BY <1>2, <1>3, <2>2 DEF Output
<1> QED
  BY <1>5, <1>6 DEF Feeds

(* The steps of parseAuthContext, and what goes on among them.             *)
Checks ==
  /\ phase \notin Sends /\ phase' \in {"valid", "expired", "name", "route"}
  /\ UNCHANGED <<cur, cut, flaws, output>>
  /\ m_http_base.req.url \notin Blacklist
  /\ SameRequest /\ Shown'
  /\ \/ UNCHANGED m_http_base
     \/ /\ m_http_base'.auth = TRUE /\ m_parse_state = "DONE"
        /\ Token \in Tokens /\ entitled
        /\ m_http_base'.user \in {None, m_tokens[Token].user}

LEMMA ChecksOutput ==
  ASSUME Output, TokensKept, Checks
  PROVE  Output'
<1>1. /\ phase \notin Sends /\ phase' \in {"valid", "expired", "name", "route"}
      /\ cur' = cur /\ cut' = cut /\ flaws' = flaws /\ got' = got
      /\ m_response_data' = m_response_data /\ m_file' = m_file
      /\ m_header_sent' = m_header_sent
      /\ m_http_base.req.url \notin Blacklist
  BY DEF Checks, output
<1>2. Unsent' /\ Answered'
  BY <1>1 DEF Output, Unsent, Answered, Sends
<1>3. SameRequest /\ m_http_base'.req = m_http_base.req
  BY DEF Checks, SameRequest
<1>4. Allowed' /\ Paged' /\ Named' /\ Opened' /\ Halfway' /\ AnswerWhole'
  BY <1>1, <1>3 DEF Allowed, Paged, Named, Opened, Halfway, AnswerWhole
<1>5. Fitting'
  BY <1>1, <1>3, FittingKept DEF Output
<1>6. Identity'
  <2>1. Shown'
    BY DEF Checks
  <2>2. CASE m_http_base' = m_http_base
    BY <2>1, <2>2, <1>3, IdentityKept DEF Output
  <2>3. CASE /\ m_http_base'.auth = TRUE /\ m_parse_state = "DONE"
             /\ Token \in Tokens /\ entitled
             /\ m_http_base'.user \in {None, m_tokens[Token].user}
    <3>1. /\ Token' = Token /\ Token \in Tokens' /\ entitled' /\ m_parse_state' = "DONE"
          /\ m_tokens'[Token].user = m_tokens[Token].user
      BY <2>3, <1>3, SameToken DEF SameRequest, TokensKept
    <3> QED
      BY <2>1, <2>3, <3>1 DEF Identity
  <2> QED
    BY <2>2, <2>3 DEF Checks
<1> QED
  BY <1>2, <1>4, <1>5, <1>6 DEF Output

(* A handler, or handleRequest itself, has answered, or named no page.     *)
Answers(d) ==
  /\ phase' = "respond" /\ m_response_data' = d
  /\ UNCHANGED <<cur, cut, flaws, got, m_file, m_header_sent, m_http_base, m_parse_state>>
  /\ entitled => entitled'

LEMMA AnswerOutput ==
  ASSUME ConnTypes, Input, Output, TokensKept, phase \in {"handle", "route"},
         NEW d \in Built \cup {None}, Answers(d),
         d # None => d.code \notin {200, 206} /\ (d.code # 429 => Fits(d.code, d.user)),
         d = None => Fits(200, None) /\ m_http_base.req.url = "/login"
  PROVE  Output'
<1>1. /\ phase' = "respond" /\ m_response_data' = d
      /\ cur' = cur /\ cut' = cut /\ flaws' = flaws /\ got' = got
      /\ m_file' = m_file /\ m_header_sent' = m_header_sent /\ m_http_base' = m_http_base
      /\ m_parse_state' = m_parse_state
  BY DEF Answers
<1>2. SameRequest
  BY DEF Answers, SameRequest
<1>3. Unsent' /\ Answered'
  BY <1>1 DEF Output, Unsent, Answered, Sends
<1>4. Allowed' /\ Named' /\ Opened' /\ Halfway' /\ AnswerWhole'
  BY <1>1 DEF Allowed, Named, Opened, Halfway, AnswerWhole
<1>5. Fitting'
  <2> SUFFICES ASSUME d # None, d.code # 429
               PROVE  m_parse_state = "DONE" /\ Fits(d.code, d.user)'
    BY <1>1 DEF Fitting
  <2>1. Fits(d.code, d.user)'
    BY <1>2, FitsKept
  <2> QED
    BY <2>1, Handled
<1>6. Paged'
  <2>1. d = None => Fits(200, None)'
    BY <1>2, FitsKept
  <2> QED
    BY <2>1, <1>1 DEF Paged
<1>7. Identity'
  <2>1. Shown'
    BY <1>1 DEF Shown
  <2> QED
    BY <2>1, <1>1, <1>2, IdentityKept DEF Output
<1> QED
  BY <1>3, <1>4, <1>5, <1>6, <1>7 DEF Output

LEMMA AnswerAnswers ==
  ASSUME NEW d, Answer(d)
  PROVE  Answers(d)
BY DEF Answer, Answers, client, input, history

LEMMA RoutePageOutput ==
  ASSUME ConnTypes, Input, Output, TokensKept, RoutePage, Fits(200, None)
  PROVE  Output'
<1>1. /\ phase = "route" /\ phase' = "respond" /\ m_response_data' = m_response_data
      /\ cur' = cur /\ cut' = cut /\ flaws' = flaws /\ got' = got
      /\ m_file' = m_file /\ m_header_sent' = m_header_sent /\ m_http_base' = m_http_base
      /\ m_parse_state' = m_parse_state /\ entitled' = entitled
      /\ \/ m_http_base.req.url = "/register" /\ m_response_url' \in RegisterPages
         \/ m_response_url' = m_http_base.req.url
  BY DEF RoutePage, Routed, RegisterPages, client, input, history
<1>2. SameRequest
  BY <1>1 DEF SameRequest
<1>3. Unsent' /\ Answered'
  BY <1>1 DEF Output, Unsent, Answered, Sends
<1>4. Allowed' /\ Named' /\ Opened' /\ Halfway' /\ AnswerWhole'
  BY <1>1 DEF Allowed, Named, Opened, Halfway, AnswerWhole
<1>5. Fitting'
  BY <1>1, <1>2, FittingKept DEF Output
<1>6. Paged'
  <2>1. Fits(200, None)'
    BY <1>2, FitsKept
  <2> QED
    BY <2>1, <1>1 DEF Paged
<1>7. Identity'
  <2>1. Shown'
    BY <1>1 DEF Shown
  <2> QED
    BY <2>1, <1>1, <1>2, IdentityKept DEF Output
<1> QED
  BY <1>3, <1>4, <1>5, <1>6, <1>7 DEF Output

(* The answer is ready to be sent: a 429, one that was built, or a page.   *)
LEMMA ReadyOutput ==
  ASSUME ConnTypes, Input, Output, TokensKept,
         phase \in {"process", "respond"}, phase' = "out",
         m_response_data' = m_response_data \/ m_response_data'.code = 429,
         m_response_data' # None,
         UNCHANGED <<cur, cut, flaws, entitled, got, m_file, m_header_sent, m_http_base,
                     m_parse_state>>
  PROVE  Output'
<1>1. /\ cur' = cur /\ cut' = cut /\ flaws' = flaws /\ got' = got
      /\ m_file' = m_file /\ m_header_sent' = m_header_sent /\ m_http_base' = m_http_base
  OBVIOUS
<1>2. /\ m_file = NoFile /\ m_header_sent = FALSE /\ flaws = {}
      /\ (cur # None /\ ~cut) => got = <<>>
  BY DEF Output, Unsent, Sends
<1>3. cut \/ cur # None
  BY DEF Input, Idle
<1>4. Unsent' /\ Answered'
  BY <1>1 DEF Unsent, Answered, Sends
<1>5. Allowed' /\ Paged' /\ AnswerWhole'
  BY <1>1 DEF Allowed, Paged, AnswerWhole
<1>6. Named'
  BY <1>1, <1>2 DEF Named, NoFile
<1>7. Halfway'
  BY <1>1, <1>2, <1>3 DEF Halfway
<1>11. SameRequest
  BY DEF SameRequest
<1>8. Fitting'
  <2>1. CASE m_response_data' = m_response_data
    BY <2>1, <1>11, FittingKept DEF Output
  <2>2. CASE m_response_data'.code = 429
    BY <2>2 DEF Fitting
  <2> QED
    BY <2>1, <2>2
<1>9. Opened'
  <2>1. m_response_data'.code \notin {200, 206}
    BY DEF Output, Answered, Sends
  <2> QED
    BY <2>1 DEF Opened
<1>10. Identity'
  <2>1. Shown'
    BY DEF Shown
  <2> QED
    BY <2>1, <1>1, <1>11, IdentityKept DEF Output
<1> QED
  BY <1>4, <1>5, <1>6, <1>7, <1>8, <1>9, <1>10 DEF Output

LEMMA RespondFileOutput ==
  ASSUME ConnTypes, Input, OutTypes, Output, TokensKept, RespondFile
  PROVE  Output'
<1>1. /\ phase = "respond" /\ phase' = "out" /\ m_response_data = None
      /\ cur' = cur /\ cut' = cut /\ got' = got
      /\ m_header_sent' = m_header_sent /\ m_http_base' = m_http_base
      /\ m_parse_state' = m_parse_state /\ entitled' = entitled
  BY DEF RespondFile, client, input
<1>2. cut \/ cur # None
  BY <1>1 DEF Input, Idle
<1>3. /\ m_header_sent = FALSE /\ (~cut => got = <<>>)
  BY <1>1, <1>2 DEF Output, Unsent, Sends
<1>4. /\ m_response_data' \in Built /\ m_response_data'.user = None
      /\ m_response_data'.code \in {200, 206, 416}
      /\ m_response_data'.code \in {200, 206} =>
           /\ m_file'.size > 0 /\ m_file'.size = m_response_data'.length
           /\ FileUnits(m_file'.offset, m_file'.offset + m_file'.size - 1) = Wanted(ByteRange)
      /\ \/ m_file'.name \in {m_response_url, "/404.html"}
         \/ m_http_base.req.url = "/" /\ m_file'.name = "/index.html"
      /\ m_file'.name \in Pages
  BY FileType
<1>5. m_response_data' # None /\ m_file'.name # None
  BY <1>4, NoneIsNothing
<1>15. SameRequest
  BY <1>1 DEF SameRequest
<1>6. ByteRange' = ByteRange
  BY <1>15, SameToken
<1>7. /\ Fits(200, None)
      /\ \/ m_http_base.req.url = "/login"
         \/ m_http_base.req.url = "/register" /\ m_response_url \in RegisterPages
         \/ m_response_url = m_http_base.req.url
  BY <1>1 DEF Output, Paged
<1>8. Unsent' /\ Answered'
  BY <1>1, <1>5 DEF Unsent, Answered, Sends
<1>9. Allowed' /\ Paged' /\ AnswerWhole'
  BY <1>1 DEF Allowed, Paged, AnswerWhole
<1>10. Named'
  BY <1>1, <1>4, <1>7 DEF Named
<1>11. Halfway'
  BY <1>1, <1>3 DEF Halfway
<1>12. Fitting'
  <2>1. PICK code \in {200, 206, 416} : m_response_data'.code = code
    BY <1>4
  <2>2. Fits(code, None)
    BY <1>7 DEF Fits
  <2>3. Fits(code, None)'
    BY <2>2, <1>15, FitsKept
  <2>4. m_parse_state' = "DONE"
    BY <1>1, Handled
  <2>5. m_response_data'.code = code /\ m_response_data'.user = None
    BY <2>1, <1>4
  <2> QED
    BY <2>3, <2>4, <2>5 DEF Fitting, Fits
<1>13. Opened'
  BY <1>4, <1>5, <1>6 DEF Opened
<1>14. Identity'
  <2>1. Shown'
    BY <1>1 DEF Shown
  <2> QED
    BY <2>1, <1>1, <1>15, IdentityKept DEF Output
<1> QED
  BY <1>8, <1>9, <1>10, <1>11, <1>12, <1>13, <1>14 DEF Output

LEMMA FinishOutput ==
  ASSUME Output, Finish
  PROVE  Output'
<1>1. CASE Close
  BY <1>1, CloseOutput
<1>2. CASE ~Close
  <2>1. /\ phase = "sent" /\ phase' = "in" /\ cur' = None /\ m_http_base' = NoBase
        /\ m_response_data' = None /\ m_header_sent' = FALSE /\ flaws' = {}
        /\ m_file' = m_file
    BY <1>2 DEF Finish
  <2>2. m_file' = NoFile
    BY <2>1 DEF Output, Unsent
  <2>3. Unsent' /\ Allowed' /\ Paged' /\ Named' /\ Fitting' /\ Answered' /\ Opened' /\ Halfway'
    BY <2>1, <2>2 DEF Unsent, Allowed, Paged, Named, Fitting, Answered, Opened, Halfway, Sends
  <2>4. Identity'
    BY <2>1 DEF Identity, Shown, NoBase
  <2>5. AnswerWhole'
    BY <2>1 DEF AnswerWhole
  <2> QED
    BY <2>3, <2>4, <2>5 DEF Output
<1> QED
  BY <1>1, <1>2

-----------------------------------------------------------------------------
(* write().                                                                *)

LEMMA Halves ==
  ASSUME NEW S, NEW a \in Seq(S), NEW b \in Seq(S), NEW u, u = a \o b
  PROVE  SubSeq(u, 1, Len(a)) = a /\ SubSeq(u, Len(a) + 1, Len(u)) = b
OBVIOUS

(* What the client has after one call that did not stop within the header. *)
LEMMA GotAfter ==
  ASSUME OutTypes, NEW h \in {0, 2}, m_header_sent => h = 0, NEW f \in Nat, NEW o \in Nat,
         NEW g, g = got \o Header(h) \o FileUnits(o, o + f - 1),
         got = IF m_header_sent THEN Header(HeaderUnits) ELSE <<>>
  PROVE  g = (IF m_header_sent \/ h = 2 THEN Header(HeaderUnits) ELSE <<>>)
               \o FileUnits(o, o + f - 1)
<1>1. PICK S : S = {"header", "file"} \X Nat
  OBVIOUS
<1>2. PICK a, c : a = Header(h) /\ c = Header(2)
  OBVIOUS
<1>3. a \in Seq(S) /\ c \in Seq(S) /\ got \in Seq(S) /\ Len(a) = h
  BY <1>1, <1>2, HeaderType DEF OutTypes
<1>4. h = 0 => a = <<>>
  BY <1>3
<1>5. got \o a = (IF m_header_sent \/ h = 2 THEN c ELSE <<>>)
  <2>1. CASE h = 0
    <3>1. got \o a = got
      BY <1>3, <1>4, <2>1, ConcatEmptySeq
    <3> QED
      BY <3>1, <2>1, <1>2 DEF HeaderUnits
  <2>2. CASE h = 2
    <3>1. got = <<>> /\ a = c
      BY <2>2, <1>2
    <3>2. got \o a = c
      BY <3>1, <1>3, ConcatEmptySeq
    <3> QED
      BY <3>2, <2>2
  <2> QED
    BY <2>1, <2>2
<1> QED
  BY <1>2, <1>5 DEF HeaderUnits

LEMMA NothingOfFile ==
  ASSUME NEW o \in Nat
  PROVE  FileUnits(o, o + 0 - 1) = <<>>
<1>1. PICK b : b = FileUnits(o, o + 0 - 1)
  OBVIOUS
<1>2. b \in Seq({"header", "file"} \X Nat) /\ Len(b) = 0
  BY <1>1, FileUnitsType
<1> QED
  BY <1>1, <1>2

(* The header goes out whole or not at all, and the file behind it.        *)
LEMMA SendingGot ==
  ASSUME OutTypes, NEW r \in Results, NEW h \in 0..HeaderUnits, NEW f \in 0..FileSize,
         Sending(r, h, f), "rewound" \notin flaws',
         got = IF m_header_sent THEN Header(HeaderUnits) ELSE <<>>
  PROVE  /\ r # "OK" => got' = IF m_header_sent' THEN Header(HeaderUnits) ELSE <<>>
         /\ r = "OK" => got' = Header(HeaderUnits)
                                 \o FileUnits(m_file.offset, m_file.offset + f - 1)
<1>1. h \in {0, 1, 2} /\ f \in Nat /\ m_file.offset \in Nat /\ m_header_sent \in BOOLEAN
  BY SizesPositive DEF HeaderUnits, OutTypes
<1>2. ~m_header_sent => h \in {0, 2}
  <2>1. "rewound" \notin (IF ~m_header_sent /\ h \in 1..HeaderUnits - 1 THEN {"rewound"} ELSE {})
    BY DEF Sending
  <2>2. ~m_header_sent => h \notin 1..HeaderUnits - 1
    BY <2>1
  <2> QED
    BY <2>2, <1>1 DEF HeaderUnits
<1>3. m_header_sent => h = 0
  <2>1. WriteOutcome(r, h, f)
    BY DEF Sending
  <2>2. m_header_sent => (h < 0 \/ h = 0)
    BY <2>1 DEF WriteOutcome
  <2> QED
    BY <2>2, <1>1
<1>4. got' = got \o Header(h) \o FileUnits(m_file.offset, m_file.offset + f - 1)
  BY DEF Sending
<1>5. PICK o \in Nat : o = m_file.offset
  BY <1>1
<1>6. got' = (IF m_header_sent \/ h = 2 THEN Header(HeaderUnits) ELSE <<>>)
               \o FileUnits(o, o + f - 1)
  BY <1>1, <1>2, <1>3, <1>4, <1>5, GotAfter
<1>7. ASSUME r # "OK"
      PROVE  got' = IF m_header_sent' THEN Header(HeaderUnits) ELSE <<>>
  <2>1. f = 0
    BY <1>7 DEF Sending, WriteOutcome
  <2>2. FileUnits(o, o + f - 1) = <<>>
    BY <2>1, NothingOfFile
  <2>3. m_header_sent' <=> (m_header_sent \/ h = 2)
    BY DEF Sending, HeaderUnits
  <2>4. PICK S, a : S = {"header", "file"} \X Nat
                    /\ a = IF m_header_sent \/ h = 2 THEN Header(HeaderUnits) ELSE <<>>
    OBVIOUS
  <2>5. a \in Seq(S)
    BY <2>4, HeaderType, EmptySeq DEF HeaderUnits
  <2>6. got' = a
    BY <2>2, <2>4, <2>5, <1>6, ConcatEmptySeq
  <2> QED
    BY <2>3, <2>4, <2>6
<1>8. ASSUME r = "OK"
      PROVE  got' = Header(HeaderUnits) \o FileUnits(o, o + f - 1)
  <2>1. m_header_sent \/ h = 2
    BY <1>8, <1>1 DEF Sending, WriteOutcome, HeaderUnits
  <2> QED
    BY <2>1, <1>6
<1> QED
  BY <1>5, <1>7, <1>8

LEMMA SendingOutput ==
  ASSUME OutTypes, Output, TokensKept, phase \in {"out", "again"},
         NEW r \in Results, NEW h \in 0..HeaderUnits, NEW f \in 0..FileSize, Sending(r, h, f),
         IF r = "OK" THEN phase' = "sent" ELSE phase' \in {"out", "again"}
  PROVE  Output'
<1>1. /\ cur' = cur /\ cut' = cut /\ m_http_base' = m_http_base
      /\ m_response_data' = m_response_data
      /\ m_file' = IF r = "OK" THEN NoFile ELSE m_file
      /\ m_parse_state' = m_parse_state /\ entitled' = entitled
  BY DEF Sending, client, input
<1>2. flaws \subseteq flaws'
  BY DEF Sending
<1>13. SameRequest
  BY <1>1 DEF SameRequest
<1>3. ByteRange' = ByteRange
  BY <1>13, SameToken
<1>4. Unsent' /\ Answered'
  BY <1>1 DEF Output, Unsent, Answered, Sends
<1>5. Allowed' /\ Paged'
  BY DEF Allowed, Paged
<1>6. Named'
  BY <1>1 DEF Output, Named
<1>7. Fitting'
  BY <1>1, <1>13, FittingKept DEF Output
<1>8. Identity'
  <2>1. Shown'
    BY DEF Shown
  <2> QED
    BY <2>1, <1>1, <1>13, IdentityKept DEF Output
<1>9. Opened'
  <2>1. CASE r = "OK"
    BY <2>1 DEF Opened
  <2>2. CASE r # "OK"
    BY <2>2, <1>1, <1>3 DEF Output, Opened
  <2> QED
    BY <2>1, <2>2
<1>10. ASSUME ~cut, "rewound" \notin flaws'
       PROVE  /\ r # "OK" => got' = IF m_header_sent' THEN Header(HeaderUnits) ELSE <<>>
              /\ r = "OK" => got' = Header(HeaderUnits)
                                      \o FileUnits(m_file.offset, m_file.offset + f - 1)
  <2>1. got = IF m_header_sent THEN Header(HeaderUnits) ELSE <<>>
    BY <1>2, <1>10 DEF Output, Halfway
  <2> QED
    BY <2>1, <1>10, SendingGot
<1>11. Halfway'
  BY <1>1, <1>10 DEF Halfway
<1>12. AnswerWhole'
  <2> SUFFICES ASSUME phase' = "sent", flaws' = {}, ~cut
               PROVE  /\ SubSeq(got', 1, HeaderUnits) = Header(HeaderUnits)
                      /\ m_response_data.code \in {200, 206} =>
                           /\ SubSeq(got', HeaderUnits + 1, Len(got')) = Wanted(ByteRange)
                           /\ m_response_data.length
                                = Len(SubSeq(got', HeaderUnits + 1, Len(got')))
    BY <1>1, <1>3 DEF AnswerWhole
  <2>1. r = "OK"
    OBVIOUS
  <2>2. f \in Nat /\ m_file.offset \in Nat /\ m_file.size \in Nat
    BY SizesPositive DEF OutTypes
  <2>3. PICK S, a, b : /\ S = {"header", "file"} \X Nat /\ a = Header(HeaderUnits)
                       /\ b = FileUnits(m_file.offset, m_file.offset + f - 1)
    OBVIOUS
  <2>4. a \in Seq(S) /\ b \in Seq(S) /\ Len(a) = HeaderUnits /\ Len(b) = f
    BY <2>2, <2>3, HeaderType, FileUnitsType DEF HeaderUnits
  <2>5. got' = a \o b
    BY <2>1, <2>3, <1>10
  <2>6. SubSeq(got', 1, HeaderUnits) = a /\ SubSeq(got', HeaderUnits + 1, Len(got')) = b
    BY <2>4, <2>5, Halves
  <2>7. ASSUME m_response_data.code \in {200, 206}
        PROVE  b = Wanted(ByteRange) /\ m_response_data.length = Len(b)
    <3>1. /\ m_file.name # None /\ m_file.size > 0 /\ m_file.size = m_response_data.length
          /\ FileUnits(m_file.offset, m_file.offset + m_file.size - 1) = Wanted(ByteRange)
      BY <2>7 DEF Output, Opened
    <3>2. ~(f < m_file.size)
      BY <2>1, <3>1 DEF Sending
    <3>3. f <= m_file.size
      <4>1. WriteOutcome(r, h, f)
        BY DEF Sending
      <4>2. \/ f = 0
            \/ f \in 1..(IF FileSize - m_file.offset < m_file.size
                         THEN FileSize - m_file.offset ELSE m_file.size)
        BY <4>1, <3>1 DEF WriteOutcome
      <4> QED
        BY <4>2, <2>2, SizesPositive
    <3>4. f = m_file.size
      BY <3>2, <3>3, <2>2
    <3> QED
      BY <3>1, <3>4, <2>3, <2>4
  <2> QED
    BY <2>3, <2>6, <2>7
<1> QED
  BY <1>4, <1>5, <1>6, <1>7, <1>8, <1>9, <1>11, <1>12 DEF Output

-----------------------------------------------------------------------------
(* Every step keeps the output side in order.                              *)

(* What a handler may answer to a request that handleRequest let through.  *)
LEMMA Cleared ==
  ASSUME Output, phase = "route", ~Protected, NEW code
  PROVE  /\ m_http_base.req.url \notin Blacklist
         /\ Fits(code, None) /\ Fits(code, m_http_base.user)
<1>1. m_http_base.req.url \notin Blacklist
  BY DEF Output, Allowed
<1>2. m_http_base.auth \/ m_http_base.req.url \in Whitelist
  BY DEF Protected, ShouldIntercept
<1>3. m_http_base.req.url \notin Whitelist =>
        /\ Token \in Tokens /\ entitled
        /\ m_http_base.user \in {None, m_tokens[Token].user}
  BY <1>2 DEF Output, Identity
<1> QED
  BY <1>1, <1>3 DEF Fits

(* parseAuthContext.                                                       *)
LEMMA AuthOutput ==
  ASSUME Sound, Output, TokensKept,
         (HandleRequest /\ phase' = "valid") \/ AuthValid \/ AuthExpired \/ AuthName
  PROVE  Output'
<1>1. ConnTypes /\ Input /\ TokensOK
  BY TypeParts DEF Sound
<1>2. CASE HandleRequest /\ phase' = "valid"
  <2>1. /\ phase = "handle" /\ ~ShouldIntercept("uri_blacklist", m_http_base.req.url)
        /\ m_response_data' = m_response_data /\ entitled' = (entitled \/ InForce(Token))
        /\ UNCHANGED <<access, client, input, m_http_base, m_response_url,
                       m_file, m_header_sent, got, ragged, cut, flaws>>
    <3>1. "valid" # "respond"
      OBVIOUS
    <3> QED
      BY <3>1, <1>2 DEF HandleRequest
  <2>2. m_http_base.req.url \notin Blacklist
    BY <2>1 DEF ShouldIntercept
  <2>3. SameRequest
    BY <2>1 DEF SameRequest, input
  <2>4. Shown'
    <3>1. Token' = Token /\ m_tokens' = m_tokens
      BY <2>1, <2>3, SameToken DEF access
    <3>2. InForce(Token)' <=> InForce(Token)
      BY <3>1 DEF InForce, IsTokenValid, IsTokenExpired, Tokens
    <3> QED
      BY <2>1, <3>1, <3>2, <1>2 DEF Shown
  <2>5. Checks
    BY <2>1, <2>2, <2>3, <2>4, <1>2 DEF Checks, Sends, client, output
  <2> QED
    BY <2>5, ChecksOutput
<1>3. CASE AuthValid
  <2>1. /\ phase = "valid" /\ UNCHANGED <<access, client, input, m_http_base, output, history>>
        /\ phase' = IF Token \in Tokens THEN "expired" ELSE "route"
    BY <1>3 DEF AuthValid, GoTo, IsTokenValid
  <2>2. m_http_base.req.url \notin Blacklist
    BY <2>1 DEF Output, Allowed
  <2>3. SameRequest
    BY <2>1 DEF SameRequest, input, history
  <2>4. Shown'
    <3>1. Token' = Token /\ m_tokens' = m_tokens
      BY <2>1, <2>3, SameToken DEF access
    <3>2. (InForce(Token)' <=> InForce(Token)) /\ Tokens' = Tokens
      BY <3>1 DEF InForce, IsTokenValid, IsTokenExpired, Tokens
    <3>3. InForce(Token) => entitled'
      BY <2>1 DEF Output, Identity, Shown, history
    <3> QED
      BY <2>1, <3>1, <3>2, <3>3 DEF Shown
  <2>5. Checks
    BY <2>1, <2>2, <2>3, <2>4 DEF Checks, Sends, client, output, history
  <2> QED
    BY <2>5, ChecksOutput
<1>4. CASE AuthExpired
  <2>1. /\ phase = "expired" /\ UNCHANGED <<access, client, input, m_http_base, output, history>>
        /\ phase' = IF IsTokenExpired(Token) THEN "route" ELSE "name"
    BY <1>4 DEF AuthExpired, GoTo
  <2>2. m_http_base.req.url \notin Blacklist /\ Token \in Tokens
    BY <2>1 DEF Output, Allowed, Identity, Shown
  <2>3. SameRequest
    BY <2>1 DEF SameRequest, input, history
  <2>4. Shown'
    <3>1. Token' = Token /\ Tokens' = Tokens
      BY <2>1, <2>3, SameToken DEF access, Tokens
    <3>2. phase' = "name" => entitled'
      BY <2>1, <2>2 DEF Output, Identity, Shown, InForce, IsTokenValid, history
    <3> QED
      BY <2>1, <2>2, <3>1, <3>2 DEF Shown
  <2>5. Checks
    BY <2>1, <2>2, <2>3, <2>4 DEF Checks, Sends, client, output, history
  <2> QED
    BY <2>5, ChecksOutput
<1>5. CASE AuthName
  <2>1. /\ phase = "name" /\ phase' = "route"
        /\ UNCHANGED <<access, client, input, output, history>>
        /\ m_http_base' = [m_http_base EXCEPT !.user = GetUsername(Token), !.auth = TRUE]
    BY <1>5 DEF AuthName
  <2>2. m_http_base.req.url \notin Blacklist /\ Token \in Tokens /\ entitled
    BY <2>1 DEF Output, Allowed, Identity, Shown
  <2>3. m_parse_state = "DONE"
    BY <2>1, <1>1, Handled
  <2>4. GetUsername(Token) \in {None, m_tokens[Token].user}
    BY <2>2, <1>1, NameType
  <2>5. /\ m_http_base'.auth = TRUE /\ m_http_base'.user = GetUsername(Token)
        /\ m_http_base'.req = m_http_base.req /\ m_http_base'.lines = m_http_base.lines
    BY <2>1, <1>1 DEF ConnTypes
  <2>6. SameRequest
    BY <2>1, <2>5 DEF SameRequest, input, history
  <2>7. Shown'
    BY <2>1 DEF Shown
  <2>8. Checks
    BY <2>1, <2>2, <2>3, <2>4, <2>5, <2>6, <2>7 DEF Checks, Sends, client, output, history
  <2> QED
    BY <2>8, ChecksOutput
<1> QED
  BY <1>2, <1>3, <1>4, <1>5

(* The handlers, and the refusals of handleRequest.                        *)
LEMMA HandlerOutput ==
  ASSUME Sound, Output, TokensKept,
         \/ HandleRequest /\ phase' = "respond"
         \/ RouteDenied \/ RouteLogin \/ RouteJson \/ RoutePage \/ RouteNotFound
  PROVE  Output'
<1>1. ConnTypes /\ Input /\ TokensOK
  BY TypeParts DEF Sound
<1>2. CASE HandleRequest /\ phase' = "respond"
  <2>2. PICK d : d = Json(403, None)
    OBVIOUS
  <2>1. phase = "handle" /\ Answers(d)
    BY <1>2, <2>2 DEF HandleRequest, Answers, client, input
  <2>3. d \in Built /\ d # None /\ d.code = 403 /\ d.user = None
    BY <2>2, JsonType
  <2>4. Fits(403, None)
    BY DEF Fits
  <2> QED
    BY <2>1, <2>2, <2>3, <2>4, <1>1, AnswerOutput
<1>3. CASE RouteDenied
  <2>2. PICK d : d = Json(401, None)
    OBVIOUS
  <2>1. phase = "route" /\ Answers(d)
    BY <1>3, <2>2, AnswerAnswers DEF RouteDenied
  <2>3. d \in Built /\ d # None /\ d.code = 401 /\ d.user = None
    BY <2>2, JsonType
  <2>4. Fits(401, None)
    BY <2>1 DEF Fits, Output, Allowed
  <2> QED
    BY <2>1, <2>2, <2>3, <2>4, <1>1, AnswerOutput
<1>4. CASE RouteLogin
  <2>1. /\ phase = "route" /\ ~Protected /\ m_http_base.req.url = "/login"
        /\ \/ Answer(Json(429, None))
           \/ Answer(Json(0, m_http_base.req.user))
           \/ Answer(None)
    BY <1>4 DEF RouteLogin, Routed
  <2>2. m_http_base.req.user \in Users
    BY <2>1, <1>1, Handled, RequestFields
  <2>3. CASE Answer(Json(429, None))
    <3>1. PICK d : d = Json(429, None)
      OBVIOUS
    <3>2. d \in Built /\ d # None /\ d.code = 429
      BY <3>1, JsonType
    <3> QED
      BY <2>1, <2>3, <3>1, <3>2, <1>1, AnswerAnswers, AnswerOutput
  <2>4. CASE Answer(Json(0, m_http_base.req.user))
    <3>1. PICK d : d = Json(0, m_http_base.req.user)
      OBVIOUS
    <3>2. d \in Built /\ d # None /\ d.code = 0 /\ d.user = m_http_base.req.user
      BY <3>1, <2>2, JsonType
    <3>3. m_http_base.req.url \notin Blacklist /\ m_http_base.req.url \in Whitelist
      BY <2>1, Cleared DEF Whitelist
    <3>4. Fits(0, m_http_base.req.user)
      BY <3>3 DEF Fits
    <3> QED
      BY <2>1, <2>4, <3>1, <3>2, <3>4, <1>1, AnswerAnswers, AnswerOutput
  <2>5. CASE Answer(None)
    <3>1. Fits(200, None)
      BY <2>1, Cleared
    <3> QED
      BY <2>1, <2>5, <3>1, <1>1, AnswerAnswers, AnswerOutput
  <2> QED
    BY <2>1, <2>3, <2>4, <2>5
<1>5. CASE RouteJson
  <2>2. PICK d : d = Json(0, m_http_base.user)
    OBVIOUS
  <2>1. phase = "route" /\ ~Protected /\ Answers(d)
    BY <1>5, <2>2, AnswerAnswers DEF RouteJson
  <2>3. d \in Built /\ d # None /\ d.code = 0 /\ d.user = m_http_base.user
    <3>1. m_http_base.user \in Users \cup {None}
      BY <1>1 DEF ConnTypes
    <3> QED
      BY <3>1, <2>2, JsonType
  <2>4. Fits(0, m_http_base.user)
    BY <2>1, Cleared
  <2> QED
    BY <2>1, <2>2, <2>3, <2>4, <1>1, AnswerOutput
<1>6. CASE RoutePage
  <2>1. phase = "route" /\ ~Protected
    BY <1>6 DEF RoutePage
  <2>2. Fits(200, None)
    BY <2>1, Cleared
  <2> QED
    BY <2>2, <1>1, <1>6, RoutePageOutput
<1>7. CASE RouteNotFound
  <2>2. PICK d : d = Json(404, None)
    OBVIOUS
  <2>1. phase = "route" /\ ~Protected /\ Answers(d)
    BY <1>7, <2>2, AnswerAnswers DEF RouteNotFound
  <2>3. d \in Built /\ d # None /\ d.code = 404 /\ d.user = None
    BY <2>2, JsonType
  <2>4. Fits(404, None)
    BY <2>1, Cleared
  <2> QED
    BY <2>1, <2>2, <2>3, <2>4, <1>1, AnswerOutput
<1> QED
  BY <1>2, <1>3, <1>4, <1>5, <1>6, <1>7

(* The input: read(), the parser and the limiter's yes.                    *)
LEMMA InOutput ==
  ASSUME Sound, Output, TokensKept,
         \/ \E n \in 1..Len(wire) : Read(n)
         \/ ParseRequestLine \/ ParseHeader \/ ParseBody \/ ParseDone
  PROVE  Output'
<1>1. ConnTypes
  BY TypeParts DEF Sound
<1>2. CASE \E n \in 1..Len(wire) : Read(n)
  <2>1. Feeds
    BY <1>2 DEF Read, Feeds, SameRequest, Sends
  <2> QED
    BY <2>1, FeedsOutput
<1>3. CASE ParseDone
  <2>1. Feeds
    BY <1>3 DEF ParseDone, GoTo, Feeds, SameRequest, Sends, client, input, history
  <2> QED
    BY <2>1, FeedsOutput
<1>4. ASSUME ParseRequestLine \/ ParseHeader \/ ParseBody
      PROVE  /\ phase = "parse" /\ phase' \in {"in", "parse"} /\ m_parse_state # "DONE"
             /\ UNCHANGED <<client, output, history>>
             /\ \/ UNCHANGED m_http_base
                \/ \E r, x : m_http_base' = [m_http_base EXCEPT !.req = r, !.lines = x]
                \/ \E x : m_http_base' = [m_http_base EXCEPT !.lines = x]
                \/ \E x : m_http_base' = [m_http_base EXCEPT !.body = x]
  <2>1. CASE ParseRequestLine
    BY <2>1 DEF ParseRequestLine, AcceptLine
  <2>2. CASE ParseHeader
    BY <2>2 DEF ParseHeader
  <2>3. CASE ParseBody
    BY <2>3 DEF ParseBody
  <2> QED
    BY <1>4, <2>1, <2>2, <2>3
<1>5. ASSUME ParseRequestLine \/ ParseHeader \/ ParseBody
      PROVE  m_http_base'.auth = m_http_base.auth /\ m_http_base'.user = m_http_base.user
  <2>1. CASE \E x : m_http_base' = [m_http_base EXCEPT !.lines = x]
    BY <2>1, <1>1 DEF ConnTypes
  <2>2. CASE \E x : m_http_base' = [m_http_base EXCEPT !.body = x]
    BY <2>2, <1>1 DEF ConnTypes
  <2>3. CASE \E r, x : m_http_base' = [m_http_base EXCEPT !.req = r, !.lines = x]
    BY <2>3, <1>1 DEF ConnTypes
  <2> QED
    BY <1>4, <1>5, <2>1, <2>2, <2>3
<1>6. CASE ParseRequestLine \/ ParseHeader \/ ParseBody
  <2>1. Feeds
    BY <1>4, <1>5, <1>6 DEF Feeds, Sends, client, history
  <2> QED
    BY <2>1, FeedsOutput
<1> QED
  BY <1>2, <1>3, <1>6

(* The limiter, and the end of process.                                    *)
LEMMA ProcessOutput ==
  ASSUME Sound, Output, TokensKept, Process \/ RespondBuilt
  PROVE  Output'
<1>1. ConnTypes /\ Input
  BY TypeParts DEF Sound
<1>2. CASE Process
  <2>1. /\ phase = "process" /\ phase' \in {"out", "parse"}
        /\ UNCHANGED <<client, input, m_http_base, m_response_url, m_file, m_header_sent, got,
                       history>>
        /\ phase' = "out" => m_response_data' = Json(429, None)
        /\ phase' = "parse" => m_response_data' = m_response_data
    BY <1>2 DEF Process
  <2>2. CASE phase' = "out"
    <3>1. m_response_data' # None /\ m_response_data'.code = 429
      BY <2>1, <2>2, JsonType
    <3> QED
      BY <2>1, <2>2, <3>1, <1>1, ReadyOutput DEF client, input, history
  <2>3. CASE phase' = "parse"
    <3>1. Feeds
      BY <2>1, <2>3 DEF Feeds, SameRequest, Sends, client, input, output, history
    <3> QED
      BY <3>1, FeedsOutput
  <2> QED
    BY <2>1, <2>2, <2>3
<1>3. CASE RespondBuilt
  <2>1. /\ phase = "respond" /\ phase' \in {"in", "out"} /\ m_response_data # None
        /\ UNCHANGED <<client, input, m_http_base, output, history>>
    BY <1>3 DEF RespondBuilt
  <2>2. CASE phase' = "out"
    BY <2>1, <2>2, <1>1, ReadyOutput DEF client, input, output, history
  <2>3. CASE phase' = "in"
    <3>1. Feeds
      BY <2>1, <2>3 DEF Feeds, SameRequest, Sends, client, input, output, history
    <3> QED
      BY <3>1, FeedsOutput
  <2> QED
    BY <2>1, <2>2, <2>3
<1> QED
  BY <1>2, <1>3

(* The clock and the others change nothing but the limits and the tokens.  *)
LEMMA ElsewhereOutput ==
  ASSUME Sound, Output, TokensKept, Elsewhere
  PROVE  Output'
<1>1. /\ phase \in {"process", "handle", "valid", "expired", "name", "route"} /\ phase' = phase
      /\ UNCHANGED <<client, input, m_http_base, output, history>>
  BY DEF Elsewhere
<1>4. SameRequest
  BY <1>1 DEF SameRequest, input, history
<1>2. CASE phase \in {"process", "handle"}
  <2>1. Feeds
    BY <1>1, <1>2, <1>4 DEF Feeds, Sends, client, history
  <2> QED
    BY <2>1, FeedsOutput
<1>3. CASE phase \notin {"process", "handle"}
  <2>1. m_http_base.req.url \notin Blacklist /\ Shown
    BY <1>1, <1>3 DEF Output, Allowed, Identity
  <2>2. Token' = Token
    BY <1>4, SameToken
  <2>3. Shown'
    <3>1. phase # "route" => (InForce(Token)' => InForce(Token))
      <4>1. PICK n : n = Token
        OBVIOUS
      <4>2. phase # "route" => (InForce(n)' => InForce(n))
        BY DEF TokensKept
      <4> QED
        BY <4>1, <4>2, <2>2 DEF InForce, IsTokenValid, IsTokenExpired
    <3>2. Tokens \subseteq Tokens'
      BY DEF TokensKept
    <3> QED
      BY <2>1, <2>2, <3>1, <3>2, <1>1 DEF Shown, history
  <2>4. Checks
    BY <2>1, <2>3, <1>1, <1>3, <1>4 DEF Checks, Sends, client, history
  <2> QED
    BY <2>4, ChecksOutput
<1> QED
  BY <1>2, <1>3

LEMMA WriteOutput ==
  ASSUME Sound, Output, TokensKept,
         NEW r \in Results, NEW h \in 0..HeaderUnits, NEW f \in 0..FileSize,
         Write(r, h, f) \/ WriteAgain(r, h, f)
  PROVE  Output'
<1>1. OutTypes
  BY TypeParts DEF Sound
<1>2. CASE Close
  BY <1>2, CloseOutput
<1>3. CASE ~Close
  <2>1. /\ phase \in {"out", "again"} /\ Sending(r, h, f)
        /\ IF r = "OK" THEN phase' = "sent" ELSE phase' \in {"out", "again"}
    BY <1>3 DEF Write, WriteAgain
  <2> QED
    BY <2>1, <1>1, SendingOutput
<1> QED
  BY <1>2, <1>3

LEMMA OutputStep ==
  ASSUME Sound, Output, [Next]_vars
  PROVE  Output'
<1>1. ConnTypes /\ Input /\ OutTypes /\ TokensOK
  BY TypeParts DEF Sound
<1>2. TokensKept
  BY <1>1, TokensStep
<1>3. CASE \E r \in Requests : Send(r)
  BY <1>3, <1>1, <1>2, SendOutput
<1>4. CASE ReadFails
  BY <1>4, CloseOutput DEF ReadFails
<1>5. CASE RespondFails
  BY <1>5, CloseOutput DEF RespondFails
<1>6. CASE \/ \E n \in 1..Len(wire) : Read(n)
           \/ ParseRequestLine \/ ParseHeader \/ ParseBody \/ ParseDone
  BY <1>6, <1>2, InOutput
<1>7. CASE Process \/ RespondBuilt
  BY <1>7, <1>2, ProcessOutput
<1>8. CASE HandleRequest
  <2>1. phase' \in {"respond", "valid"}
    BY <1>8 DEF HandleRequest
  <2> QED
    BY <2>1, <1>2, <1>8, AuthOutput, HandlerOutput
<1>9. CASE AuthValid \/ AuthExpired \/ AuthName
  BY <1>9, <1>2, AuthOutput
<1>10. CASE RouteDenied \/ RouteLogin \/ RouteJson \/ RoutePage \/ RouteNotFound
  BY <1>10, <1>2, HandlerOutput
<1>11. CASE RespondFile
  BY <1>11, <1>1, <1>2, RespondFileOutput
<1>12. CASE \E r \in Results, h \in 0..HeaderUnits, f \in 0..FileSize :
              Write(r, h, f) \/ WriteAgain(r, h, f)
  BY <1>12, <1>2, WriteOutput
<1>13. CASE Finish
  BY <1>13, FinishOutput
<1>14. CASE Elsewhere
  BY <1>14, <1>2, ElsewhereOutput
<1>15. CASE UNCHANGED vars
  <2>1. UNCHANGED <<m_tokens, client, input, phase, m_http_base, output, history>>
    BY <1>15 DEF vars, access
  <2>2. SameRequest
    BY <2>1 DEF SameRequest, input, history
  <2>3. Unsent' /\ Allowed' /\ Named' /\ Answered'
    BY <2>1 DEF Output, Unsent, Allowed, Named, Answered, client, output, history
  <2>4. Opened' /\ Halfway' /\ AnswerWhole'
    BY <2>1, <2>2, SameToken DEF Output, Opened, Halfway, AnswerWhole, client, output, history
  <2>5. Fitting'
    BY <1>2, <2>1, <2>2, FittingKept DEF Output, output
  <2>6. Paged'
    <3>1. Fits(200, None) => Fits(200, None)'
      BY <1>2, <2>2, FitsKept
    <3> QED
      BY <2>1, <3>1 DEF Output, Paged, output
  <2>7. Identity'
    <3>1. Shown'
      <4>1. Token' = Token
        BY <2>2, SameToken
      <4>2. Tokens' = Tokens /\ (InForce(Token)' <=> InForce(Token))
        BY <2>1, <4>1 DEF Tokens, InForce, IsTokenValid, IsTokenExpired
      <4> QED
        BY <2>1, <4>1, <4>2 DEF Output, Identity, Shown, history
    <3> QED
      BY <3>1, <1>2, <2>1, <2>2, IdentityKept DEF Output
  <2> QED
    BY <2>3, <2>4, <2>5, <2>6, <2>7 DEF Output
<1> QED
  BY <1>3, <1>4, <1>5, <1>6, <1>7, <1>8, <1>9, <1>10, <1>11, <1>12, <1>13, <1>14, <1>15 DEF Next

LEMMA OutputInvariant == Spec => [](Sound /\ Output)
<1>1. Init => Sound /\ Output
  BY TypeInit, OutputInit
<1>2. Sound /\ Output /\ [Next]_vars => (Sound /\ Output)'
  BY SoundStep, OutputStep
<1> QED
  BY <1>1, <1>2, PTL DEF Spec

(* handleRequest and parseAuthContext, for whatever is read as a request,  *)
(* the rest of a cut one included: a blacklisted URL is refused, and what  *)
(* needs a login is served only if the token shown was in force when the   *)
(* request came to be handled, under its owner's name or nobody's, however *)
(* the clock runs between the three looks at the token.                    *)
THEOREM RequestsAuthorized == Spec => []Authorized
<1>1. Output => Authorized
  <2> SUFFICES ASSUME Output, phase \in {"out", "again", "sent"}, m_response_data.code # 429
               PROVE  Fits(m_response_data.code, m_response_data.user)
    BY DEF Authorized, Fits
  <2>1. m_response_data # None
    BY DEF Output, Answered, Sends
  <2> QED
    BY <2>1 DEF Output, Fitting
<1> QED
  BY <1>1, OutputInvariant, PTL

(* The controllers and generateResponse: however often a connection is     *)
(* used, the answer is to the request the client waits for, unless a 429   *)
(* has cut an earlier one, and the page in it is that of the URL read, or  *)
(* its 404; a failed login is the one that may be shown the connection's   *)
(* last page.                                                              *)
THEOREM AnswersFit == Spec => []AnswerFits
<1>1. Sound /\ Output => AnswerFits
  <2> SUFFICES ASSUME Sound, Output, phase \in {"out", "again"}, m_response_data.code # 429
               PROVE  /\ ~cut => m_http_base.req = cur
                      /\ Named
    BY DEF AnswerFits, Named, RegisterPages
  <2>1. m_response_data # None
    BY DEF Output, Answered, Sends
  <2>2. m_parse_state = "DONE"
    BY <2>1 DEF Output, Fitting
  <2> QED
    BY <2>2 DEF Sound, Input, Mine, Output
<1> QED
  BY <1>1, OutputInvariant, PTL

(* write() and handleWriteEvent, for files and ranges of every size: when  *)
(* write() returns OK the client has the header once and, of the file,     *)
(* what was asked for, as long as Content-Length says, but for the flaws   *)
(* that are named: a header begun again, a short sendfile, a range past    *)
(* the end.                                                                *)
THEOREM AnswersWhole == Spec => []AnswerWhole
<1>1. Output => AnswerWhole
  BY DEF Output
<1> QED
  BY <1>1, OutputInvariant, PTL
==============================================================================
