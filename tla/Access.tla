------------------------------- MODULE Access -------------------------------
(***************************************************************************)
(* Who may do what: RateLimiter, Interceptor and TokenManager, singletons  *)
(* that the workers of every connection share.  Each call is one step:     *)
(* RateLimiter and Interceptor hold their mutex for its duration, and the  *)
(* maps of TokenManager only ever gain entries, since nobody calls tick on *)
(* its timer manager and nobody calls removeToken.                         *)
(*                                                                         *)
(* Points in time are kept as ages: how long ago a window began, how long  *)
(* a token has to live.  The limiter's keys are client addresses; the one  *)
(* address here stands for any, the others do not meet it.                 *)
(***************************************************************************)
EXTENDS Integers, Sequences

CONSTANTS
  Users,      \* user names
  MaxCount,   \* max_count of every rule, per type
  Window,     \* window_sec of every rule, per type, in ticks
  TokenLife,  \* timeout_ms of a token, in ticks
  MaxTokens,  \* bound: how many tokens are created
  OtherTypes, \* bound: the limits that other connections use up
  None

Types == {"access_ip", "login_ip"}

ASSUME LimitsPositive ==
  /\ MaxCount \in [Types -> Nat \ {0}] /\ Window \in [Types -> Nat \ {0}]
  /\ TokenLife \in Nat \ {0} /\ MaxTokens \in Nat /\ OtherTypes \subseteq Types
ASSUME NobodyIsNone == None \notin Users
ASSUME NoneIsNoWindow == None \notin [age : Nat, count : Nat]

VARIABLES
  m_limit,  \* m_typeLimitMap: per type None or the count and the window's age
  m_tokens, \* token n: its user and what is left of its life
  accepted  \* history: accesses let through since a ticks ago, per type and a

access == <<m_limit, m_tokens, accepted>>

Ages(type) == 0..Window[type] - 1
Tokens == DOMAIN m_tokens

(* registerLimitRule for both types; no address is known, no token given.  *)
AccessInit ==
  /\ m_limit = [t \in Types |-> None]
  /\ m_tokens = <<>>
  /\ accepted = [t \in Types |-> [a \in Ages(t) |-> 0]]

-----------------------------------------------------------------------------
(* Slip: one access more than max_count.                                   *)
IsLimitLate(type) ==
  /\ m_limit[type] # None
  /\ m_limit[type].age < Window[type]
  /\ m_limit[type].count > MaxCount[type]

(* RateLimiter::isLimit: the answer ...                                    *)
IsLimit(type) ==
  /\ m_limit[type] # None
  /\ m_limit[type].age < Window[type]
  /\ m_limit[type].count >= MaxCount[type]

(* ... and what it leaves behind.                                          *)
CountAccess(type) ==
  LET e == m_limit[type]
      fresh == e = None \/ (e # None /\ e.age >= Window[type])
  IN  /\ m_limit' = IF IsLimit(type) THEN m_limit
                    ELSE [m_limit EXCEPT ![type] =
                            IF fresh THEN [age |-> 0, count |-> 1]
                            ELSE [age |-> e.age, count |-> e.count + 1]]
      /\ accepted' = IF IsLimit(type) THEN accepted
                     ELSE [accepted EXCEPT ![type] =
                             [a \in Ages(type) |-> accepted[type][a] + 1]]

(* Interceptor: the whitelist of URLs that need no login, and the          *)
(* blacklist, as registerAllInterceptorImpl fills them.                    *)
Whitelist == {"/login.html", "/register", "/index.html", "/", "/logo.jpg", "/api/hello",
              "/login", "/welcome.html", "/video.mp4", "/test_transaction.html",
              "/api/tx_test", "/ws_test.html"}
Blacklist == {"/forbidden", "/hack.html", "/internal/debug", "/admin/deleteAll",
              "/api/hack", "/shutdown"}

(* Interceptor::shouldIntercept for the two registered types.              *)
ShouldIntercept(type, url) ==
  CASE type = "login_unrequired" -> url \notin Whitelist
    [] type = "uri_blacklist" -> url \in Blacklist

(* TokenManager::createToken.                                              *)
CreateToken(u) ==
  /\ Len(m_tokens) < MaxTokens
  /\ m_tokens' = Append(m_tokens, [user |-> u, life |-> TokenLife])

(* TokenManager::isTokenValid: signed and in the map.                      *)
IsTokenValid(n) == n \in Tokens

(* TokenManager::isTokenExpired: its timer has run out.                    *)
IsTokenExpired(n) == m_tokens[n].life = 0

(* A token that was given out and has not run out.                         *)
InForce(n) == IsTokenValid(n) /\ ~IsTokenExpired(n)

(* TokenManager::getUsername checks again before it looks.                 *)
GetUsername(n) ==
  IF InForce(n) THEN m_tokens[n].user ELSE None

-----------------------------------------------------------------------------
(* Time passes.                                                            *)
Tick ==
  /\ m_limit' = [t \in Types |->
       IF m_limit[t] = None \/ (m_limit[t] # None /\ m_limit[t].age >= Window[t])
       THEN m_limit[t] ELSE [age |-> m_limit[t].age + 1, count |-> m_limit[t].count]]
  /\ m_tokens' = [n \in Tokens |->
       [user |-> m_tokens[n].user,
        life |-> IF m_tokens[n].life = 0 THEN 0 ELSE m_tokens[n].life - 1]]
  /\ accepted' = [t \in Types |->
       [a \in Ages(t) |-> IF a = 0 THEN 0 ELSE accepted[t][a - 1]]]

(* Another connection from the same address calls isLimit.                 *)
OtherAccess(type) == CountAccess(type) /\ UNCHANGED m_tokens

-----------------------------------------------------------------------------
(* Types of the limiter's windows, the tokens and the record of accesses.  *)
AccessTypeOK ==
  /\ DOMAIN m_limit = Types /\ DOMAIN accepted = Types
  /\ \A t \in Types :
       m_limit[t] = None \/ m_limit[t] \in [age : 0..Window[t], count : Nat \ {0}]
  /\ m_tokens \in Seq([user : Users, life : 0..TokenLife])
  /\ Len(m_tokens) <= MaxTokens
  /\ \A t \in Types : accepted[t] \in [Ages(t) -> Nat]

(* RateLimiter counts in windows that begin with an access and do not     *)
(* slide (rate_limiter.cpp:58), so max_count may be exceeded in a period  *)
(* of window_sec that straddles two of them, but never doubled: whatever  *)
(* the connections of an address do, fewer than 2 * max_count accesses    *)
(* are let through in any such period. That is what src/README.md:167 and *)
(* :465 call a fixed window. The sliding window that src/README.md:48 and *)
(* :346 promise would let no more than max_count through in any period;   *)
(* this code lets up to 2 * max_count - 1 through.                        *)
WindowBound ==
  \A t \in Types : accepted[t][Window[t] - 1] < 2 * MaxCount[t]
=============================================================================
