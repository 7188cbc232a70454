------------------------------ MODULE MCHttpConn ------------------------------
(* TLC instance of HttpConn: the requests that take each branch.           *)
EXTENDS HttpConn, TLC

CONSTANTS u1, u2

TwoUsers == {u1, u2}
AccessOnly == {"access_ip"}
Counts == [t \in {"access_ip", "login_ip"} |-> IF t = "access_ip" THEN 2 ELSE 1]
Windows == [t \in {"access_ip", "login_ip"} |-> IF t = "access_ip" THEN 2 ELSE 1]

Base == [method |-> "GET", url |-> "/", headers |-> <<>>, wellFormed |-> TRUE,
         tok |-> 0, user |-> u1, big |-> FALSE,
         range |-> [start |-> -1, end |-> -1, isValid |-> FALSE]]
Get(url, headers) == [Base EXCEPT !.url = url, !.headers = headers]
Post(url, headers) == [Get(url, headers) EXCEPT !.method = "POST"]
Ranged(a, b) == [Get("/welcome.html", <<"Range">>) EXCEPT
                   !.range = [start |-> a, end |-> b, isValid |-> TRUE]]
(* Requests that keep the connection, and requests that end it.            *)
Lasting ==
  {[Get("/test.css", <<"connection", "Authorization">>) EXCEPT !.tok = 1],
   Post("/login", <<"connection", "Content-Length">>)}
Ending ==
  {[Base EXCEPT !.wellFormed = FALSE],
   Get("/", <<>>), Get("/video.mp4", <<>>), Get("/forbidden", <<>>),
   Get("/test.css", <<>>), Post("/", <<>>),
   Post("/register", <<"Content-Length">>),
   [Get("/checktoken", <<"Authorization">>) EXCEPT !.tok = 1],
   [Post("/api/echo", <<"Content-Length", "Authorization">>) EXCEPT !.tok = 1, !.big = TRUE],
   Ranged(1, 1), Ranged(1, -1), Ranged(-1, 1), Ranged(1, 2), Ranged(2, 2)}
(* What may be left of a request reads as: a header line of three words;   *)
(* a body that holds request lines.                                        *)
Remains ==
  {[Base EXCEPT !.method = "other", !.url = "Bearer"],
   [Get("/test.css", <<>>) EXCEPT !.tok = 1]}
Both == Lasting \cup Ending
==============================================================================
