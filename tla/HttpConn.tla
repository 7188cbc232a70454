------------------------------ MODULE HttpConn ------------------------------
(***************************************************************************)
(* One keep-alive HTTP connection from the client's bytes to the client's  *)
(* bytes: HttpConn with HttpBase, HttpRequest and HttpResponse, the Router *)
(* and the handlers of UserController and TestController, over Access.     *)
(* NetServer runs at most one read, process or write of a connection at a  *)
(* time (module NetServer, OneToken), so they form one sequence of steps,  *)
(* among which time passes and other connections use up the rate limit.    *)
(*                                                                         *)
(* Bytes come in units: a line is two units of text and its CRLF.  That is *)
(* enough for a read to end anywhere in a line, and for what lies behind   *)
(* m_read_idx in the buffer to be taken for input.                         *)
(***************************************************************************)
EXTENDS Access, SequencesExt

CONSTANTS
  Requests,  \* what the client may send: see Request
  Strays,    \* what a line that is no request line may be read as
  BufSize,   \* READ_BUFFER_SIZE, in units
  FileSize   \* the size of every file, in units

ASSUME SizesPositive == BufSize \in Nat \ {0} /\ FileSize \in Nat \ {0}

CRLF == <<"crlf", 0>>
NUL == <<"nul", 0>>
Text(h) == <<<<h, 1>>, <<h, 2>>>>
HeaderNames == {"connection", "Content-Length", "Authorization", "Range"}
Body == Text("body")
NoRange == [start |-> -1, end |-> -1, isValid |-> FALSE]

(* A request: headers is the order of its header lines; wellFormed says    *)
(* whether the request line has its three parts; tok is the token it shows *)
(* (0: none that was ever given); big, whether its echo outgrows the write *)
(* buffer.                                                                 *)
Request == [method : {"GET", "POST", "other"}, url : STRING, headers : Seq(HeaderNames),
            wellFormed : BOOLEAN, tok : 0..MaxTokens, user : Users,
            range : [start : Int, end : Int, isValid : BOOLEAN], big : BOOLEAN]

(* All that parseRequestLine may make of a line.                           *)
Readable == Requests \cup Strays

(* The files there are, and the pages an answer may name.                  *)
Files == {"/index.html", "/welcome.html", "/404.html", "/test.css",
          "/register_success.html", "/register_error.html"}
Pages == Files \cup {""} \cup {r.url : r \in Readable}

(* An answer built: its code, the user it names, its Content-Length.       *)
Built == [code : Nat, user : Users \cup {None}, length : Nat]

ASSUME RequestsWellFormed == Readable \subseteq Request
ASSUME NoneIsNothing == None \notin Pages \cup Request \cup Built

HasBody(r) == "Content-Length" \in ToSet(r.headers)
Lines(r) == <<Text("line")>> \o [i \in DOMAIN r.headers |-> Text(r.headers[i])]
Encode(r) ==
  [i \in 1..3 * Len(Lines(r)) |->
     IF i % 3 = 0 THEN CRLF ELSE Lines(r)[(i + 2) \div 3][i % 3]]
    \o <<CRLF>> \o (IF HasBody(r) THEN Body ELSE <<>>)

VARIABLES
  (* the client and the socket *)
  cur,             \* the request that waits for its answer, or None
  wire,            \* units sent and not yet received
  got,             \* what it received of the answer, up to a rewound header
  (* HttpConn *)
  phase,           \* where the connection is: see Phases
  m_read_buf, m_read_idx, m_parse_state,
  m_http_base,     \* HttpBase: the request read, the lines parsed, the body, the identity
  m_response_url,  \* HttpResponse: the page to send
  m_response_data, \* the header and body built: its code and length, or None
  m_file,          \* the open file: its name, the offset and size to send
  m_header_sent,
  (* History *)
  ragged,          \* a read ended in the header line it began in
  cut,             \* an answer left part of a request in the socket
  entitled,        \* the token shown was in force when the request came to be handled
  flaws            \* what went wrong while this answer was sent

client == <<cur, wire>>
input == <<m_read_buf, m_read_idx, m_parse_state>>
output == <<m_response_url, m_response_data, m_file, m_header_sent, got>>
history == <<ragged, cut, entitled, flaws>>
vars == <<access, client, phase, input, m_http_base, output, history>>

Phases == {"in",       \* registered for EPOLLIN
           "process",  \* read() has returned true
           "parse",    \* in parseHttpRequest
           "handle", "valid", "expired", "name", "route",  \* in handleRequest
           "respond",
           "out",      \* registered for EPOLLOUT
           "again",    \* write() has been called once and returned AGAIN or ERROR
           "sent",     \* write() has returned OK
           "closed"}

EmptyBuf == [i \in 1..BufSize |-> NUL]
NoBase == [req |-> None, lines |-> <<>>, body |-> <<>>, auth |-> FALSE, user |-> None]
NoFile == [name |-> None, offset |-> 0, size |-> 0]

Init ==
  /\ AccessInit
  /\ cur = None /\ wire = <<>> /\ got = <<>>
  /\ phase = "in"
  /\ m_read_buf = EmptyBuf /\ m_read_idx = 0 /\ m_parse_state = "REQUEST_LINE"
  /\ m_http_base = NoBase
  /\ m_response_url = "" /\ m_response_data = None
  /\ m_file = NoFile /\ m_header_sent = FALSE
  /\ ragged = FALSE /\ cut = FALSE /\ entitled = FALSE /\ flaws = {}

(* closeConnection, or closeConn after a failure: socket and object go.    *)
Close ==
  /\ phase' = "closed"
  /\ cur' = None /\ wire' = <<>> /\ got' = <<>>
  /\ m_read_buf' = EmptyBuf /\ m_read_idx' = 0 /\ m_parse_state' = "REQUEST_LINE"
  /\ m_http_base' = NoBase
  /\ m_response_url' = "" /\ m_response_data' = None
  /\ m_file' = NoFile /\ m_header_sent' = FALSE
  /\ ragged' = FALSE /\ cut' = FALSE /\ entitled' = FALSE /\ flaws' = {}
  /\ UNCHANGED access

-----------------------------------------------------------------------------
(* The client sends one request and waits for its answer.                  *)
Send(r) ==
  /\ phase # "closed" /\ cur = None
  /\ r.tok \in Tokens \cup {0}
  /\ cur' = r
  /\ wire' = wire \o Encode(r)
  /\ got' = <<>>
  /\ UNCHANGED <<access, phase, input, m_http_base,
                 m_response_url, m_response_data, m_file, m_header_sent, history>>

-----------------------------------------------------------------------------
(* The read buffer.                                                        *)

(* strstr(m_read_buf, "\r\n") looks as far as the first NUL, whatever      *)
(* m_read_idx is; 0 if it finds nothing.  Behind a full buffer lies        *)
(* m_read_idx, whose first byte is 0 then.                                 *)
Strstr ==
  LET ends == {i \in 1..BufSize : /\ m_read_buf[i] = CRLF
                                  /\ \A j \in 1..i - 1 : m_read_buf[j] \notin {CRLF, NUL}}
  IN  IF ends = {} THEN 0 ELSE CHOOSE i \in ends : TRUE

(* removeLine: memmove and a NUL behind what is left.                      *)
RemoveLine(len) ==
  LET left == IF len >= m_read_idx THEN 0 ELSE m_read_idx - len
  IN  /\ m_read_idx' = left
      /\ m_read_buf' = [i \in 1..BufSize |->
           IF i <= left THEN m_read_buf[i + len]
           ELSE IF i = left + 1 THEN NUL ELSE m_read_buf[i]]

(* What parseHeaders made of the lines: a line that is not the one sent    *)
(* names no known header.                                                  *)
HasHeader(h) == \E i \in 2..Len(m_http_base.lines) : m_http_base.lines[i] = Text(h)
ContentLength == IF HasHeader("Content-Length") THEN Len(Body) ELSE 0
KeepAlive == HasHeader("connection")
Token == IF HasHeader("Authorization") THEN m_http_base.req.tok ELSE 0
ByteRange == IF HasHeader("Range") THEN m_http_base.req.range ELSE NoRange

(* Slip: recv is not told how much room is left.                           *)
ReadUnbounded(n) ==
  /\ phase = "in" /\ m_read_idx < BufSize
  /\ m_read_buf' = [i \in 1..BufSize |->
       IF i \in m_read_idx + 1..m_read_idx + n THEN wire[i - m_read_idx] ELSE m_read_buf[i]]
  /\ m_read_idx' = m_read_idx + n
  /\ wire' = SubSeq(wire, n + 1, Len(wire))
  /\ phase' = "process"
  /\ UNCHANGED <<access, cur, m_parse_state, m_http_base, output, history>>

(* HttpConn::read returns true: n units have arrived, and as many as fit   *)
(* are received.                                                           *)
Read(n) ==
  LET k == IF n <= BufSize - m_read_idx THEN n ELSE BufSize - m_read_idx
  IN  /\ phase = "in" /\ m_read_idx < BufSize
      /\ m_read_buf' = [i \in 1..BufSize |->
           IF i \in m_read_idx + 1..m_read_idx + k THEN wire[i - m_read_idx]
           ELSE m_read_buf[i]]
      /\ m_read_idx' = m_read_idx + k
      /\ wire' = SubSeq(wire, k + 1, Len(wire))
      /\ phase' = "process"
      /\ ragged' = (ragged \/ (m_parse_state = "HEADERS"
                              /\ CRLF \notin ToSet(SubSeq(wire, 1, k))))
      /\ UNCHANGED <<access, cur, m_parse_state, m_http_base, output, cut, entitled, flaws>>

(* It returns false: recv fails, the client has closed its end (in ET mode *)
(* even if a request came before), or the buffer was full before the call. *)
ReadFails == phase = "in" /\ Close

-----------------------------------------------------------------------------
(* process, first the rate limiter.                                        *)

(* sendRESTfulJson: the HTTP status is 200 and the code is in the body.    *)
Json(code, user) == [code |-> code, user |-> user, length |-> 1]

Process ==
  /\ phase = "process"
  /\ CountAccess("access_ip")
  /\ IF IsLimit("access_ip")
     THEN /\ m_response_data' = Json(429, None)
          /\ phase' = "out"
     ELSE phase' = "parse" /\ UNCHANGED m_response_data
  /\ UNCHANGED <<m_tokens, client, input, m_http_base, m_response_url,
                 m_file, m_header_sent, got, history>>

(* What parseRequestLine may make of a line: any three words are a method, *)
(* a URL and a version.  Behind a cut request the line may be what is left *)
(* of a header or a body, or belong to a request whose sender has lost     *)
(* count; which words those hold is left open.                             *)
ReadAs(line) ==
  {r \in Readable : \/ line = Text("line") /\ r = cur /\ r.wellFormed
                    \/ line # <<>> /\ (cut \/ line # Text("line")) /\ r \in Strays}
Unreadable(line) == line = Text("line") => cut \/ ~cur.wellFormed

(* The request line has been read: it makes way for the headers.           *)
AcceptLine(r, line) ==
  /\ m_http_base' = [m_http_base EXCEPT !.req = r, !.lines = <<line>>]
  /\ RemoveLine(Strstr)
  /\ m_parse_state' = "HEADERS"

(* Slip: process returns after the request line, as if more had to come.   *)
ParseRequestLineStops ==
  LET line == SubSeq(m_read_buf, 1, Strstr - 1)
  IN  /\ phase = "parse" /\ m_parse_state = "REQUEST_LINE"
      /\ phase' = "in"
      /\ \/ Strstr > 0 /\ \E r \in ReadAs(line) : AcceptLine(r, line)
         \/ (Strstr = 0 \/ Unreadable(line)) /\ UNCHANGED <<m_http_base, input>>
      /\ UNCHANGED <<access, client, output, history>>

(* parseHttpRequest, PARSE_REQUEST_LINE.  A line without its three parts   *)
(* stays in the buffer, and the connection waits for more.                 *)
ParseRequestLine ==
  LET line == SubSeq(m_read_buf, 1, Strstr - 1)
  IN  /\ phase = "parse" /\ m_parse_state = "REQUEST_LINE"
      /\ \/ /\ Strstr > 0
            /\ \E r \in ReadAs(line) : AcceptLine(r, line)
            /\ UNCHANGED phase
         \/ /\ Strstr = 0 \/ Unreadable(line)
            /\ phase' = "in"
            /\ UNCHANGED <<m_http_base, input>>
      /\ UNCHANGED <<access, client, output, history>>

(* parseHttpRequest, one line of PARSE_HEADERS.                            *)
ParseHeader ==
  LET at == Strstr
      line == SubSeq(m_read_buf, 1, at - 1)
  IN  /\ phase = "parse" /\ m_parse_state = "HEADERS"
      /\ \/ /\ at = 0
            /\ phase' = "in"
            /\ UNCHANGED <<m_http_base, input>>
         \/ /\ at > 0
            /\ RemoveLine(at)
            /\ IF line = <<>>
               THEN m_parse_state' = "BODY" /\ UNCHANGED m_http_base
               ELSE /\ m_http_base' =
                         [m_http_base EXCEPT !.lines = Append(m_http_base.lines, line)]
                    /\ UNCHANGED m_parse_state
            /\ UNCHANGED phase
      /\ UNCHANGED <<access, client, output, history>>

(* Slip: the body is taken as far as it has arrived.                       *)
ParseBodyEarly ==
  LET n == ContentLength IN
  /\ phase = "parse" /\ m_parse_state = "BODY"
  /\ m_http_base' = [m_http_base EXCEPT !.body = SubSeq(m_read_buf, 1, n)]
  /\ RemoveLine(n)
  /\ m_parse_state' = "DONE"
  /\ UNCHANGED <<access, client, phase, output, history>>

(* parseHttpRequest, PARSE_BODY.                                           *)
ParseBody ==
  LET n == ContentLength IN
  /\ phase = "parse" /\ m_parse_state = "BODY"
  /\ \/ /\ m_read_idx < n
        /\ phase' = "in"
        /\ UNCHANGED <<m_http_base, input>>
     \/ /\ m_read_idx >= n
        /\ m_http_base' = [m_http_base EXCEPT !.body = SubSeq(m_read_buf, 1, n)]
        /\ RemoveLine(n)
        /\ m_parse_state' = "DONE"
        /\ UNCHANGED phase
  /\ UNCHANGED <<access, client, output, history>>

-----------------------------------------------------------------------------
(* handleRequest: the blacklist, then parseAuthContext, whose three calls  *)
(* of TokenManager are steps of their own: the token may run out between   *)
(* them.                                                                   *)

Answer(d) ==
  /\ m_response_data' = d
  /\ phase' = "respond"
  /\ UNCHANGED <<client, input, m_http_base, m_response_url,
                 m_file, m_header_sent, got, history>>

GoTo(label) ==
  /\ phase' = label
  /\ UNCHANGED <<access, client, input, m_http_base, output, history>>

(* PARSE_DONE: parseHttpRequest returns true and process goes on.          *)
ParseDone ==
  /\ phase = "parse" /\ m_parse_state = "DONE"
  /\ GoTo("handle")

HandleRequest ==
  /\ phase = "handle"
  /\ phase' = IF ShouldIntercept("uri_blacklist", m_http_base.req.url) THEN "respond" ELSE "valid"
  /\ m_response_data' = IF phase' = "respond" THEN Json(403, None) ELSE m_response_data
  /\ entitled' = (entitled \/ InForce(Token))
  /\ UNCHANGED <<access, client, input, m_http_base, m_response_url,
                 m_file, m_header_sent, got, ragged, cut, flaws>>

AuthValid ==
  /\ phase = "valid"
  /\ GoTo(IF IsTokenValid(Token) THEN "expired" ELSE "route")

(* Slip: a token that is in the map is taken for good.                     *)
AuthUnexpired ==
  /\ phase = "expired"
  /\ GoTo("name")

AuthExpired ==
  /\ phase = "expired"
  /\ GoTo(IF IsTokenExpired(Token) THEN "route" ELSE "name")

(* setUsername also sets m_authenticated, whatever getUsername returned.   *)
AuthName ==
  /\ phase = "name"
  /\ m_http_base' = [m_http_base EXCEPT !.user = GetUsername(Token), !.auth = TRUE]
  /\ phase' = "route"
  /\ UNCHANGED <<access, client, input, output, history>>

(* What dispatch finds: a handler, a page, or nothing.                     *)
Protected == ~m_http_base.auth /\ ShouldIntercept("login_unrequired", m_http_base.req.url)
Routed(method, url) == m_http_base.req.method = method /\ m_http_base.req.url = url
Unrouted == /\ ~Routed("POST", "/login") /\ ~Routed("POST", "/register")
            /\ ~Routed("GET", "/checktoken") /\ ~Routed("POST", "/api/echo")

(* The 401 of handleRequest, which also keeps checkToken from meeting an   *)
(* unauthenticated request.                                                *)
RouteDenied ==
  /\ phase = "route" /\ Protected
  /\ Answer(Json(401, None)) /\ UNCHANGED access

(* UserController::login.  A failed login builds nothing and names no page *)
RouteLogin ==
  /\ phase = "route" /\ ~Protected /\ Routed("POST", "/login")
  /\ CountAccess("login_ip")
  /\ IF IsLimit("login_ip")
     THEN Answer(Json(429, None)) /\ UNCHANGED m_tokens
     ELSE \/ Answer(Json(0, m_http_base.req.user)) /\ CreateToken(m_http_base.req.user)
          \/ Answer(None) /\ UNCHANGED m_tokens

(* The controllers that answer with JSON: checkToken and echo.             *)
RouteJson ==
  /\ phase = "route" /\ ~Protected
  /\ Routed("GET", "/checktoken") \/ Routed("POST", "/api/echo")
  /\ Answer(Json(0, m_http_base.user)) /\ UNCHANGED access

(* Slip: dispatch leaves the page to send as it was.                       *)
RoutePageKeepsUrl ==
  /\ phase = "route" /\ ~Protected
  /\ Routed("POST", "/register") \/ (Unrouted /\ m_http_base.req.method = "GET")
  /\ phase' = "respond"
  /\ UNCHANGED <<access, client, input, m_http_base, output, history>>

(* registerUser and dispatch of a GET without handler name the page.       *)
RoutePage ==
  /\ phase = "route" /\ ~Protected
  /\ \/ /\ Routed("POST", "/register")
        /\ m_response_url' \in {"/register_success.html", "/register_error.html"}
     \/ Unrouted /\ m_http_base.req.method = "GET" /\ m_response_url' = m_http_base.req.url
  /\ phase' = "respond"
  /\ UNCHANGED <<access, client, input, m_http_base, m_response_data,
                 m_file, m_header_sent, got, history>>

(* dispatch of any other method, and of a POST, without handler: sendText. *)
RouteNotFound ==
  /\ phase = "route" /\ ~Protected /\ Unrouted /\ m_http_base.req.method # "GET"
  /\ Answer(Json(404, None)) /\ UNCHANGED access

-----------------------------------------------------------------------------
(* The end of handleRequest and of process.                                *)

(* A response was built: copyResponseData.  One that does not fit leaves   *)
(* process with false: the connection waits for input with the request     *)
(* still in PARSE_DONE.  A client that sent more now would have the same   *)
(* request handled again; this one waits, but the rest of a cut request    *)
(* may still be in the socket.                                             *)
RespondBuilt ==
  /\ phase = "respond" /\ m_response_data # None
  /\ phase' = IF m_http_base.req.big /\ m_response_data.code = 0 THEN "in" ELSE "out"
  /\ UNCHANGED <<access, client, input, m_http_base, output, history>>

(* Slip: the length announced is that of the file, whatever the range.     *)
FileAnswerWhole(name, r) ==
  LET ok == r.start >= 0 /\ r.start < FileSize
      size == IF r.end # -1 /\ r.end >= r.start THEN r.end - r.start + 1
                                                ELSE FileSize - r.start
  IN  IF r.isValid /\ ok
      THEN [code |-> 206, length |-> FileSize, name |-> name, offset |-> r.start, size |-> size]
      ELSE [code |-> 200, length |-> FileSize, name |-> name, offset |-> 0, size |-> FileSize]

(* generateResponse for an open file: offset, size and Content-Length.  An *)
(* end behind the file's is taken as it is.                                *)
FileAnswer(name, r) ==
  LET start == IF r.start >= 0 THEN r.start ELSE FileSize - r.end
      size == IF r.start < 0 THEN r.end
              ELSE IF r.end # -1 /\ r.end >= r.start THEN r.end - r.start + 1
              ELSE FileSize - r.start
      satisfiable == \/ r.start >= 0 /\ r.start < FileSize
                     \/ r.start = -1 /\ r.end > 0 /\ r.end <= FileSize
      reply(code, from, n) ==
        [code |-> code, length |-> n, name |-> name, offset |-> from, size |-> n]
  IN  IF ~r.isValid THEN reply(200, 0, FileSize)
      ELSE IF satisfiable THEN reply(206, start, size)
      ELSE reply(416, 0, 0)

(* generateResponse: the page is opened.  No page was named yet: the path  *)
(* is that of the directory, which opens as well.                          *)
RespondFile ==
  LET url == IF m_http_base.req.url = "/" THEN "/index.html" ELSE m_response_url
      page == IF url \in Files \cup {""} THEN url ELSE "/404.html"
      a == FileAnswer(page, ByteRange)
  IN  /\ phase = "respond" /\ m_response_data = None
      /\ m_response_url' = IF page = "" THEN m_response_url ELSE page
      /\ m_response_data' = [code |-> a.code, user |-> None, length |-> a.length]
      /\ m_file' = [name |-> page, offset |-> a.offset, size |-> a.size]
      /\ phase' = "out"
      /\ flaws' = IF a.offset + a.size > FileSize THEN flaws \cup {"past_end"} ELSE flaws
      /\ UNCHANGED <<access, client, input, m_http_base,
                     m_header_sent, got, ragged, cut, entitled>>

(* open fails: closeConn.                                                  *)
RespondFails ==
  /\ phase = "respond" /\ m_response_data = None
  /\ Close

-----------------------------------------------------------------------------
(* write, and what handleWriteEvent makes of its result.                   *)

HeaderUnits == 2  \* m_write_buf, in units
Header(n) == [i \in 1..n |-> <<"header", i>>]
FileUnits(from, to) == [i \in 1..to - from + 1 |-> <<"file", from + i - 1>>]

(* How far one call of write() gets: r is its result, h the units of       *)
(* m_write_buf and f those of the file that it sends.  It starts from the  *)
(* first unit of m_write_buf until all of it went out in one call, and     *)
(* calls sendfile once, which may send less than it was asked to; the file *)
(* is closed then and the result OK.  A directory cannot be sent.          *)
WriteOutcome(r, h, f) ==
  LET left == IF m_header_sent THEN 0 ELSE HeaderUnits
      size == IF m_file.name = None THEN 0 ELSE m_file.size
      avail == IF FileSize - m_file.offset < size THEN FileSize - m_file.offset ELSE size
  IN  \/ r # "OK" /\ h < left /\ f = 0
      \/ r # "OK" /\ h = left /\ f = 0 /\ size > 0
      \/ r = "OK" /\ h = left /\ size = 0 /\ f = 0
      \/ r = "OK" /\ h = left /\ size > 0 /\ m_file.name # "" /\ f \in 1..avail

Sending(r, h, f) ==
  /\ WriteOutcome(r, h, f)
  /\ m_header_sent' = (m_header_sent \/ h = HeaderUnits)
  /\ m_file' = IF r = "OK" THEN NoFile ELSE m_file
  /\ flaws' = flaws
       \cup (IF ~m_header_sent /\ h \in 1..HeaderUnits - 1 THEN {"rewound"} ELSE {})
       \cup (IF r = "OK" /\ m_file.name # None /\ f < m_file.size THEN {"short"} ELSE {})
  /\ got' = IF "rewound" \in flaws' THEN <<>>
            ELSE got \o Header(h) \o FileUnits(m_file.offset, m_file.offset + f - 1)
  /\ UNCHANGED <<access, client, input, m_http_base, m_response_url,
                 m_response_data, ragged, cut, entitled>>

Results == {"OK", "AGAIN", "ERROR"}

(* handleWriteEvent calls write() ...                                      *)
Write(r, h, f) ==
  /\ phase = "out"
  /\ Sending(r, h, f)
  /\ phase' = IF r = "OK" THEN "sent" ELSE "again"

(* ... a second time if the result was not OK, and closes the connection   *)
(* unless the second result is AGAIN ...                                   *)
WriteAgain(r, h, f) ==
  /\ phase = "again"
  /\ \/ r = "AGAIN" /\ Sending(r, h, f) /\ phase' = "out"
     \/ r # "AGAIN" /\ WriteOutcome(r, h, f) /\ Close

(* ... or else resets it with init, or closes it.  init makes a new        *)
(* HttpBase and empties the buffers; it leaves m_response_url.             *)
Finish ==
  /\ phase = "sent"
  /\ \/ ~KeepAlive /\ Close
     \/ /\ KeepAlive
        /\ phase' = "in"
        /\ cur' = None
        /\ m_read_buf' = EmptyBuf /\ m_read_idx' = 0 /\ m_parse_state' = "REQUEST_LINE"
        /\ m_http_base' = NoBase
        /\ m_response_data' = None /\ m_header_sent' = FALSE
        /\ ragged' = FALSE
        /\ cut' = (cut \/ wire # <<>>)
        /\ entitled' = FALSE /\ flaws' = {}
        /\ UNCHANGED <<access, wire, m_response_url, m_file, got>>

-----------------------------------------------------------------------------
(* The clock and the other connections, where this one is about to look at *)
(* what they change; their other steps commute with this one's.            *)
Elsewhere ==
  /\ phase \in {"process", "handle", "valid", "expired", "name", "route"}
  /\ Tick \/ \E t \in OtherTypes : OtherAccess(t)
  /\ UNCHANGED <<client, phase, input, m_http_base, output, history>>

Next ==
  \/ \E r \in Requests : Send(r)
  \/ \E n \in 1..Len(wire) : Read(n)
  \/ ReadFails
  \/ Process
  \/ ParseRequestLine \/ ParseHeader \/ ParseBody \/ ParseDone
  \/ HandleRequest \/ AuthValid \/ AuthExpired \/ AuthName
  \/ RouteDenied \/ RouteLogin \/ RouteJson \/ RoutePage \/ RouteNotFound
  \/ RespondBuilt \/ RespondFile \/ RespondFails
  \/ \E r \in Results, h \in 0..HeaderUnits, f \in 0..FileSize :
       Write(r, h, f) \/ WriteAgain(r, h, f)
  \/ Finish
  \/ Elsewhere

Spec == Init /\ [][Next]_vars

-----------------------------------------------------------------------------
Units == {CRLF} \cup {<<n, i>> : n \in HeaderNames \cup {"line", "body"}, i \in 1..2}

(* Types of the connection's members and of the client's bytes; whatever   *)
(* arrives, recv never writes behind m_read_buf.                           *)
TypeOK ==
  /\ AccessTypeOK
  /\ phase \in Phases
  /\ cur \in Requests \cup {None} /\ wire \in Seq(Units)
  /\ m_read_buf \in [1..BufSize -> Units \cup {NUL}] /\ m_read_idx \in 0..BufSize
  /\ m_parse_state \in {"REQUEST_LINE", "HEADERS", "BODY", "DONE"}
  /\ m_http_base \in [req : Readable \cup {None}, lines : Seq(Seq(Units)),
                      body : Seq(Units \cup {NUL}), auth : BOOLEAN, user : Users \cup {None}]
  /\ m_response_url \in Pages /\ m_response_data \in Built \cup {None}
  /\ m_file \in [name : Pages \cup {None}, offset : Nat, size : Nat]
  /\ m_header_sent \in BOOLEAN /\ got \in Seq({"header", "file"} \X Nat)
  /\ ragged \in BOOLEAN /\ cut \in BOOLEAN /\ entitled \in BOOLEAN
  /\ flaws \subseteq {"rewound", "short", "past_end"}

(* parseHttpRequest works on a buffer that strstr searches as far as the   *)
(* first NUL, behind m_read_idx as well, while recv puts no NUL behind     *)
(* what it receives.  Even so, however a request is cut into reads, the    *)
(* lines and the body it ends up with are the ones that were sent, unless  *)
(* a read in PARSE_HEADERS ended within the line it began in (so that no   *)
(* NUL was left between it and older bytes) or an earlier 429 answered     *)
(* half a request and its rest was taken for the next one.                 *)
ParsedAsSent ==
  (m_parse_state = "DONE" /\ ~ragged /\ ~cut)
  => /\ m_http_base.lines = Lines(cur)
     /\ m_http_base.body = (IF HasBody(cur) THEN Body ELSE <<>>)

(* When the connection waits for input and everything the client sent has  *)
(* been received, no request waits for an answer, with four exceptions: a  *)
(* malformed request line, which parseHttpRequest neither consumes nor     *)
(* refuses; an answer too big for m_write_buf, after which handleRequest   *)
(* returns false without closing; and the two cases of ParsedAsSent.       *)
NothingForgotten ==
  (phase = "in" /\ wire = <<>> /\ cur # None)
  => ~cur.wellFormed \/ cur.big \/ ragged \/ cut

(* Whatever was read as a request, the rest of another one included: a     *)
(* blacklisted URL is refused, and what needs a login is served only if    *)
(* the token it shows was in force when handleRequest began, even though   *)
(* the token may run out between any two of TokenManager's looks at it.    *)
(* The identity the answer is given under is that of the token's owner, or *)
(* nobody's.                                                               *)
Authorized ==
  LET r == m_http_base.req
      d == m_response_data
  IN (phase \in {"out", "again", "sent"} /\ d.code # 429)
     => /\ r.url \in Blacklist => d.code = 403
        /\ (r.url \notin Whitelist /\ d.code \notin {401, 403}) =>
             /\ entitled
             /\ d.user \in {None, m_tokens[Token].user}

(* What a connection's earlier requests left on it does not reach the      *)
(* answer.  It answers the request the client waits for, unless a 429 has  *)
(* left the rest of an earlier one in the socket, which then may be read   *)
(* as a request of its own.  And the page sent is that of the URL read, or *)
(* its 404.  The exception is a failed login, which names no page:         *)
(* HttpResponse::init keeps m_response_url, so it gets the last page of    *)
(* the connection.                                                         *)
AnswerFits ==
  LET r == m_http_base.req
  IN (phase \in {"out", "again"} /\ m_response_data.code # 429)
     => /\ ~cut => r = cur
        /\ m_file.name # None
             => \/ m_file.name \in {r.url, "/404.html"}
                \/ r.url = "/" /\ m_file.name = "/index.html"
                \/ r.url = "/register"
                   /\ m_file.name \in {"/register_success.html", "/register_error.html"}
                \/ r.url = "/login"

(* The units a request for a page asks for.                                *)
Wanted(r) ==
  CASE ~r.isValid -> FileUnits(0, FileSize - 1)
    [] r.isValid /\ r.start >= 0 ->
         FileUnits(r.start, IF r.end >= r.start THEN r.end ELSE FileSize - 1)
    [] r.isValid /\ r.start < 0 -> FileUnits(FileSize - r.end, FileSize - 1)

(* When write() returns OK ("all written") the client has received the     *)
(* header once, and of the file exactly what the request, as it was        *)
(* parsed, asks for, as many units as Content-Length announced, unless the *)
(* socket was full in the middle of the header (the next call begins it    *)
(* again), sendfile sent less than it was asked to, the range went past    *)
(* the end of the file, or a 429 answers the rest of a cut request, which  *)
(* its client does not wait for.                                           *)
AnswerWhole ==
  (phase = "sent" /\ flaws = {} /\ ~cut)
  => LET body == SubSeq(got, HeaderUnits + 1, Len(got))
     IN  /\ SubSeq(got, 1, HeaderUnits) = Header(HeaderUnits)
         /\ m_response_data.code \in {200, 206}
              => body = Wanted(ByteRange) /\ m_response_data.length = Len(body)
=============================================================================
