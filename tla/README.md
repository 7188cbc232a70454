# Verification of ModularNetServer in TLA+

ModularNetServer is a C++ web server: one thread runs an `epoll` loop, a pool of
threads runs the closures the loop queues, and beside them stand timers, a pool
of MySQL handles, an asynchronous log, sessions, tokens, caches and a router.
This directory holds TLA+ modules for the parts where threads meet, TLC
configurations for small instances of them, and TLAPS proofs. `PROJECT.json`
maps every definition to the lines it models and lists the runs, the mutated
definitions that each property is known to catch, the findings and the hazards.

## 1. The system

| part | state | operations | who uses it |
|---|---|---|---|
| `NetServer` (`net/`) | `m_users`, epoll interest list, `m_timer_manager`, `m_is_running` | `eventLoop`, `handleNewConnection`, `handleReadEvent`, `handleWriteEvent`, `refreshTimer`, `closeConnection`, `modFd`, `shutdown` | the main thread; closures on the pool |
| `HttpConn` with `HttpBase`, `HttpRequest`, `HttpResponse` (`conn/http/`) | `m_sockfd`, `m_is_closed`, read and write buffers, parse state, the answer and the file being sent | `init`, `read`, `process`, `write`, `closeConn` | both kinds of thread, without a lock of its own |
| `ThreadPool` (`threadpool/`) | `m_tasks`, `m_stop`, mutex and condition variable | `addTask`, `worker`, `shutdown` | everybody |
| `TimerManager` (`timer/`) | `m_timer_heap`, `m_timer_map` | `addTimer`, `tick`, `isExpired` | `NetServer` (ticked), sessions and tokens (never ticked) |
| `SqlConnPool`, `SqlConnRAII`, `SqlTransaction`, DAOs (`db/`, `mvc/dao/`) | queue of handles, per handle a MySQL session | `getConn`, `releaseConn`, `begin`, `commit`, `rollback`, `shutdown` | workers, inside `process()` |
| `Log` (`log/`) | `m_log_queue`, `m_running`, `m_close_log`, file | `write`, `logThread`, `shutdown` | everybody |
| `SignalUtils` (`util/`) | a self-pipe | handler, read end in epoll | kernel, main thread |
| WebSocket (`conn/websocket/`) | per connection buffers and status, the two session maps | `read`, `process`, frames, `bindSession`, `sendToSession` | workers, and pushes from other threads |
| cache (`cache/`) | LRU list and map, Redis | `get`, `put`/`set`, `erase` | workers |
| `RateLimiter`, `Interceptor`, `Router`, `SessionManager`, `TokenManager` | maps under a mutex each | look-ups and inserts | `HttpConn::process` |
| configuration, start-up, crypto, system utilities | none that changes while serving | | |

**How they interact.** The loop waits in `epoll_wait`, calls `tick` (whose
callbacks close connections), then dispatches the events. `EPOLLONESHOT` disarms
a descriptor when it is reported; whoever handles the event re-arms it with
`modFd` or closes it. In Reactor mode a worker reads and processes; in Proactor
mode the main thread reads and a worker processes. A successful `process()`
re-arms for output through a callback. Closures capture the descriptor number
and a `shared_ptr` to the connection. Workers block in `SqlConnPool::getConn`
when all handles are out. On a signal the main thread closes all connections,
drains the SQL pool, stops and joins the workers and stops the log.

**What is hard.** Connections have no lock and depend on the one-shot hand-over;
descriptor numbers are reused while closures still hold them; timers close
connections that are in use; three condition variables with three different
disciplines; shutdown from inside the loop. The full list, each with its line
and the properties aimed at it, is `hazards` in `PROJECT.json`.

## 2. Modules

Every variable named like a member (`m_...`) is that member. Control is kept
complete; data is reduced to what the properties distinguish.

* **ThreadPool** — one action per region between two operations on the mutex or
  the condition variable. A worker's predicate and its falling asleep are separate
  steps, so a flag set without the lock would be seen to lose a wake-up; spurious
  wake-ups are allowed. `submitted` and `started` are history.
* **TimerManager** — the heap as a set of nodes with addresses, the map with the
  node that counts, and `tick` as one step per heap top under the mutex, while the
  clock runs on. Freed addresses are used again, as lazy deletion compares
  pointers. **DeadlineMap** is its abstract specification: one deadline per
  id, replaced, fired in order of deadlines, never early.
* **NetServer** — main thread, workers, epoll, descriptor table and clients
  together. A request comes in fragments, so a read may leave it incomplete, and a
  429 may answer half of one; the connection is then kept only if `process()` has
  seen the connection header before (`parsed`), and its client has lost count
  (`sent` is `Fragments + 1`). `process()` may answer, find the request incomplete,
  turn a complete one down without a word, or fail and close.
  `closeConnection` is two steps (erase from `m_users`; then `epoll_ctl` and
  `close`), since the lock is released in between. `~HttpConn` runs when the
  last reference goes. The pool is abstracted to its FIFO queue, which is what
  ThreadPool is shown to provide; timers are the sequence of live timers in order
  of deadline, what TimerManager is shown to provide. Actor model and trigger mode
  are variables set once, so one run covers several modes.
* **SqlConnPool** — the pool, the guard, the transaction and the two inserting
  DAOs, with the destructors' order; MySQL is external: a session per
  handle that may die at any time, a table, and calls whose answer may be lost. A
  thrown exception meets no handler, so it ends the process.
* **Log** — writers, the log thread, the caller of `shutdown`; every unlocked
  access to the two flags is a step of its own.
* **Access** — `RateLimiter`, `Interceptor` and `TokenManager`, shared by all
  connections, one step per call. Points in time are kept as ages, so the clock
  needs no bound. The history `accepted` keeps, for each age up to the window, how
  many accesses were let through since then.
* **HttpConn** (over Access) — one keep-alive connection from `recv` to
  `sendfile`: the read buffer with its stale bytes, the parser line by line (one
  action per state of `parseHttpRequest`, `PARSE_DONE` included), the
  three separate looks at the token, routes and controllers, ranges, `write()` with
  partial results and the second call of it in `handleWriteEvent`. Bytes come in
  units (a line is two and its CRLF), so that a read may end anywhere.
  `parseRequestLine` takes any three words for a request line: what a 429 left of a
  cut request may be read as any request of `Strays` (`ReadAs`), and answered. That reads,
  `process` and `write` of a connection follow one another is what `OneToken`
  says of NetServer.
* **WebSocket** — connections, workers, timers, the manager's two maps and a
  thread that pushes. An object lives as long as `m_users`, a closure or the push
  refers to it, because `closeConn` closes the descriptor only at its second
  call, which is the destructor's. `close` and `removeFd` are two steps on a worker.
  On the main thread they are one, since the thread that would accept a new
  client is the same. `handleHandshake` and the `bindSession` that follows it are
  two steps: in between a connection is `CONNECTED` and not yet in the maps.
* **Cache** — `CacheAdapter` in its three modes: every call is a sequence of
  `LRUCache` operations (under that class's mutex) and Redis commands, without
  a lock around them. All threads share one `redisContext`, which has no lock either
  and is not made for two threads: `redisCommand` is two steps, sending and taking the
  next reply in the reader, whoever's it is. A thread that sends while another one
  waits races on the output buffer, so its command goes out once, twice or not at all.
  Redis may refuse a command, or the connection may break before or after it was
  carried out.

`MC*` modules give the constants; `ThreadPoolProofs`, `TimerManagerProofs`,
`LogProofs`, `SqlConnPoolProofs`, `NetServerProofs`, `CacheProofs`,
`WebSocketProofs` and `HttpConnProofs` hold the theorems about the modules they are
named after, `HttpConnProofs` also those about Access.

## 3. Runs

Passing runs:

| run | instance | what it shows |
|---|---|---|
| `thread_pool` | 2 workers, 2 callers, 3 submissions | tasks taken once and in order; no lost wake-up; nobody asleep after `notify_all`; under fairness every task starts unless the pool is stopped, and `shutdown` returns |
| `net_server` | 2 clients, 1 descriptor number, 2 workers, all four modes, requests in 2 fragments, time-outs, a signal, `process()` may fail; behaviours are followed up to the first race | `OneToken`, `UsersAgree`, `TimerCoverage` |
| `net_server_liveness` | 1 client, 1 descriptor, 1 worker, all four modes, requests in 3 fragments, a signal, `process()` may fail, no time-outs | a complete request is answered or the connection closed, unless `process()` turned it down without a word, a 429 made the client lose count, or a race came first; the descriptors of departed peers are released; a signal ends the loop |
| `timer_manager` | 2 ids, 4 addresses, timeouts 1 and 2, clock to 3 | live timers stay in the heap, nothing due is left by `tick`, refinement of DeadlineMap, due timers fire |
| `sql_pool` | 4 workers, 2 handles, 3 transactions, 1 autocommitted insert, handles may die, shutdown at any time | handles conserved, and closed by an orderly exit, no transaction inherited, replies agree with the table, no lost waiter |
| `log` | 2 writers, 2 entries each | file in order and without duplicates, entries pushed before `shutdown` written, others written in time |
| `http_conn` | 16 kinds of request and 2 that the rest of a cut one may read as, a buffer of 5 units, files of 2, one token, limits of 2 and 1 | requests are parsed as sent however they are cut, none is forgotten, what needs a login is served for a token in force only, answers carry nothing of earlier requests, `OK` means the whole answer went out once, fewer than twice the limit pass in any window, each but for the exceptions below |
| `websocket` | 2 clients, 2 numbers, 2 sessions, 2 workers, 2 frames each, 1 push | descriptors live exactly as long as their connections, the session maps lead to the right client, frames handled once and in order |
| `cache` | 2 threads, 2 values; LRU alone with 3 keys and capacity 0 or 2, Redis alone with 3 keys, both with 2 keys and capacity 0 to 2 | list and map of the LRU agree, eviction takes the key used least recently, undisturbed reads are fresh until two threads were inside `redisCommand` at once |

Runs that end in a counterexample, each against a sentence of the repository
quoted in `findings`:

| run | property | shown |
|---|---|---|
| `net_server_stale_fd` | `NoForeignFd` | a time-out closes a connection whose closure is queued or running; the number is reused; the closure works on the new connection's descriptor |
| `sql_pool_shutdown` | `ShutdownCompletes` | the pool is drained before the workers are stopped; a worker that then calls `getConn` waits for ever and the join with it |
| `log_shutdown` | `ShutdownReturns` | `m_running` is cleared and `notify_all` called without the mutex; the notification falls between predicate and sleep and the join never returns |

Because of the first of these, `OneToken`, `UsersAgree`, `TimerCoverage` and
`RequestAnswered` promise nothing once `raced` is set. That happens when a time-out, the
main thread or shutdown closes a connection while a closure with its number is queued or
running or an event for it was fetched, and when `accept` gives out a number that a
closure of its last owner has yet to re-arm (after `handleRequest` closed the
connection itself, `http_conn.cpp:559`). It is wider than what the counterexample
needs: a race that happens to do no harm sets it as well, and the properties say
nothing of how the code goes on from there.

`SignalStops` is about the loop and the thread pool; that the SQL pool or the log
can hang the same shutdown is shown by their own runs.

The other properties name their exceptions in the same way. Each is a behaviour of
the code that the model reaches; where it has occurred, the property says nothing, so
that the hazards listed here are described by these properties but not covered by them
(the notes of `hazards` say what is):

| property | exception | where |
|---|---|---|
| `ParsedAsSent`, `NothingForgotten` | `ragged`: in `PARSE_HEADERS` a read ended within the line it began in, and `strstr` went on into older bytes | `http_conn.cpp:483` |
| the same | `cut`: a 429 answered half a request and its rest was taken for the next one | `http_conn.cpp:294` |
| `RequestAnswered` | `LeftUnheard`: `process()` turned the complete request down, for a malformed request line, which the log says ends the connection, or an answer too big for `m_write_buf`; a client that a 429 made lose count; `raced` | `http_conn.cpp:469`, `:428`, `:294` |
| `NothingForgotten` | a malformed request line, which is neither consumed nor refused; an answer too big for `m_write_buf` | `http_conn.cpp:470`, `:428` |
| `AnswerFits` | `cut`: the rest of a cut request is read as a request of its own and answered | `http_conn.cpp:294`, `http_request.cpp:78` |
| the same | a failed login, which names no page and gets the last one of the connection | `user_controller.cpp:42`, `http_response.cpp:3` |
| `AnswerWhole` | `cut`, as above; the socket filled up within the header, `sendfile` sent less than asked, the range ended behind the file | `http_conn.cpp:206`, `:237`, `:384` |
| `FdLivesWithConn` | `revived`: `init` after a time-out; the descriptor is then never closed | `websocket_conn.cpp:18` |
| `SessionsAgree` | `crossed`: the number was given out again between `close` and `removeFd` | `websocket_conn.cpp:38` |
| `HandledInOrder` | `blurred`: frames that came with the handshake are thrown away; a push arms the descriptor while a worker has it | `websocket_conn.cpp:155`, `websocket_conn_manager.cpp:33` |
| `FreshRead` | calls on the same key overlapped, or a Redis command failed, until the next undisturbed write | `cache_adapter.cpp:51`, `:64` |
| the same | `crossed`: two threads were inside `redisCommand` at once; each may have the other's reply, and the LRU has it under the wrong key | `redis_client.cpp:36`, `:57`, `:88`, `:112`, `cache_adapter.cpp:51` |

`Authorized` and `WindowBound` have none. What `WindowBound` says is what the code does
and not all that the repository says: `src/README.md:48` and `:346` promise a sliding
window ("滑动窗口限流", "sliding-window rate limiting per type + key"), which would let
`max_count` accesses through in any period of `window_sec`; `:167` and `:465` say a fixed
window ("固定窗口限流", "fixed-window rate limiting"). `rate_limiter.cpp:47-58` has the
fixed one, so that up to `2 * max_count - 1` pass in a period that straddles two windows:
the promise of `:48` and `:346` is not kept. Nor is another: `:176` and `:474` call the
`LRUCache` thread-safe, which it is (`IndexMatchesList`), but `CacheAdapter` in front of
it and of Redis is not.

**Bounds.** One descriptor number and two clients force reuse as early as possible; two
workers are needed for two closures at once. `net_server_liveness` has one client, as
its questions are about one connection, and three fragments, so that a 429 can come
after the connection header and before the end. `net_server` follows no behaviour beyond
the first race (`CONSTRAINT NotRaced`), where its invariants but `TypeOK` say nothing;
the proofs have no such limit. Four SQL workers on two handles let two wait at once,
which `notify_one` needs to be wrong. `MaxTasks`, `MaxWrites` and `MaxTime` cap
submissions, log entries and the clock; `MaxTokens`, `Frames` and `MaxPushes` cap
logins, frames and calls of `sendToSession`. `BufSize` is 5 units: less than two lines,
so that the buffer of a request with a header fills up, and more than any line. `Strays`
are a header line of three words and a request line within a body. `MaxAnswers` is the
number of replies in the reader above which no command is sent twice; `Setups` are the
modes, capacities and keys that are combined. `FileSize` is 2, the least for a range to
be shorter, to end at the end and to go past it. `OtherTypes` says which limit other
connections from the same address use up: `access_ip`, as a connection meets `login_ip`
only at its own login. Requests that keep the connection are followed by one of any
kind, the others end it. One key more than the LRU's capacity makes the order of
eviction matter; capacity 0 turns the LRU off. `AddTimer` leaves one address free, so
that a renewal inside `tick` finds one; the number of addresses bounds the heap, which
the code does not. Clients finish: each connects once, and the requests to the SQL pool
are a finite set, so starvation by an endless stream of other workers is not examined.
Symmetry is used only in runs without liveness properties; `FreshRead`, in the symmetric
run `cache`, is an action property, for which it is sound. Deadlock checking is off
where the system may stop: after a shutdown, when all clients are gone, or when an SQL
worker is left waiting; the liveness properties say when it may not.

**Fairness.** Threads run (weak fairness of their steps); a thread that finds a
mutex free again and again gets it (strong fairness of the lock step), as
with any real mutex; a peer that keeps reading lets `send` succeed in the end.
Clients, signals, time-outs, lost connections and spurious wake-ups are never
obliged to happen. There is no assumption that time passes: `epoll_wait(-1)`
returns only for an event and `tick` is called only after it, so that without
traffic no connection is ever timed out (hazard at `net_server.cpp:155`), and no
liveness property could say otherwise.

## 4. Proofs

Proved with TLAPS for every value of the constants, from the named assumptions in the
modules (sentinels are outside the sets, sets of threads and of handles are finite,
timeouts are positive, bounds and capacities are natural numbers; a request is for one
DAO or the other, `OneDao`; the pushing thread is none of the pool, `PushIsNoWorker`;
what the client sends are requests, `RequestsWellFormed`, and the sentinel `None` is no
request, page, answer or window). The proofs are from the actions, for behaviours after
a race or an exception as well, of which the properties of section 3 then say nothing.

* `ThreadPoolProofs`
  * `TypeCorrect`: types, and the mutex belongs to exactly the worker inside the
    critical section; inductive as it stands.
  * `QueueIsFifo`: `started \o m_tasks = submitted`, with two lemmas on moving an
    element across a concatenation.
  * `StopWakesEverybody`: from `StopInv`. The flag is set while the mutex is free,
    so no worker is then between predicate and sleep; afterwards the predicate
    is true, and only earlier sleepers are left for `notify_all`.
  * `NoLostWakeup`: `WakeInv` adds to `EveryTaskHasAWorker` that a worker about to
    sleep holds the mutex over an empty queue. The step compares cardinalities:
    a submission adds a task and a pending notification; a notification
    turns into a worker on its way or meets no sleeper; a taken task uses up a
    worker.
* `TimerManagerProofs`
  * `LiveTimersStay`: `LiveInHeap` with the types, which say that the map files a
    node under its own id.
  * `TickLeavesNothingDue`: if the heap top is not due, nothing in the heap is,
    and by `LiveInHeap` no timer that counts either.
  * `HeapImplementsMap`: every step is a DeadlineMap step or a stutter; a
    superseded node maps to a stutter, a top that counts to the earliest deadline.
* `LogProofs`
  * `TypeCorrect`: with `Begun`, that a writer about to push has counted its entry.
  * `FileIsInOrder`: `m_log_file \o m_log_queue = pushed` is inductive with the
    types; a push appends to both sides and a drain moves the queue across.
  * `OwedEntriesWritten`: `Paid` adds that the debt is paid as soon as `shutdown()`
    has written the rest of the queue; after that the file only grows, and only
    `shutdown()` closes it.
* `SqlConnPoolProofs`
  * `TypeCorrect`, inductive as it stands.
  * `NoWaiterLost`: `NoLostWaiter` is inductive with the types. As in the thread
    pool the step compares cardinalities, here those of the free handles and of the
    workers on their way to them; `shutdown` takes handles away and so needs no
    care.
  * `HandlesConserved`: the queue has no handle twice, and adding or removing one
    changes the set of free handles by exactly that one. That an orderly exit has
    closed them all (`AllClosed`) needs the types, which put every worker outside
    `getConn` and `releaseConn` once it is joined.
  * `TransactionsBelong`: `SessionsFit` says what MySQL has in the session of a
    borrowed handle at each point of the DAO, and that a handle nobody holds is
    without a transaction. `TxBelongsToHolder` alone says too little of what the
    next statement will find.
  * `RepliesTruthful`: `Served` adds that every request is waiting, served by one
    worker or answered, and that what a DAO is about to return already agrees with
    the table; a process ended by a lost answer to `COMMIT` is the one exception.
* `NetServerProofs`
  * `TypeCorrect`: with `Threads`, which says which locals a thread has at each
    point, and that no timer is live twice.
  * `OneOwner` and `UsersAlwaysAgree`: both follow from `Sound`. For every
    descriptor number it says (`FdOK`) that a free one is nowhere, not even in a
    closure that is not over, and that one in use belongs to the same connection for
    the descriptor table, `m_users`, epoll, the events reported, the queue, the
    workers and the main thread, with exactly one owner. `OneToken` counts owners of
    open connections only; without knowing that a free number is nowhere it would
    not survive `accept`. `Agreed` is `~raced => Sound`.
  * `TimersCover`: `Timed`, from `Sound` and two lemmas on cancelling and renewing a
    timer in the sequence of timers.
* `CacheProofs`
  * `ListAndIndexAgree`, `EvictsLeastRecent`: `List` says that the keys of the list
    are the first ones of the history of use, which has each key once. One lemma per
    list operation (look-up, move to the front, insert, evict, erase).
  * `ReadsAreFresh`, an action property: `Coherent` says that where the proper
    content of a key is known both layers have it and so has a `get` on its way to
    the backfill, that a call which ran alone so far shares its key with no write,
    and what the LRU has between the two halves of a write. `Waiting` says that
    until a command crossed another at most one thread is inside `redisCommand` and
    the reader holds its reply and nothing else, which fits its call; `NoClaim` that
    after it no key is vouched for.
* `WebSocketProofs`
  * `TypeCorrect`, `FdAndConnLiveTogether`: `Bound` says that `m_users`, the
    closures and the push refer to living connections, that a descriptor and its
    connection name each other, that one which outlived its connection is that of a
    revived one, and that a connection outside `m_users` is marked or was revived:
    the destructor closes the descriptor of marked connections only.
  * `PushesFindTheirSession`: `Linked`. The entry of a number in `m_fd_to_session`
    is the session of the client that has the number or of the one whose `removeFd`
    is to come, which `SessionsAgree` cannot say as it looks at `m_users` alone.
  * `FramesInOrder`: `Ordered` counts the units of the client that are gone; the
    read buffer and the wire hold those behind them, and after the handshake as many
    are gone as the dispatched frames have. During the handshake, up to the end of
    `bindSession` (`Phase`), `HandledInOrder` says nothing, so it is not inductive.
    `ServedOnce`: unless a push interfered, one worker at a time serves a
    connection. `Keyed`: only a handshake with a key comes to `bindSession`.
* `HttpConnProofs`, in two layers: `Sound` for the input, `Output` on top of it
  * `TypeCorrect`: the types with `Input`. That `read()` stays in `m_read_buf` is
    local; that the user, the page and the range of an answer exist needs that only
    what was read as a request is ever handled (`Idle`, `Mine`, `Handling`).
  * `RequestsParsedAsSent` and `NoRequestForgotten`: `Stream` says that the buffer
    up to `m_read_idx` and then the socket hold the request from the unit on that
    the parser has reached, `Parsed` that the lines up to there are those sent.
    `strstr` looks behind `m_read_idx`, so the step of the parser also needs what is
    there: NULs before the request line is parsed (`Fresh`), and in the headers a
    NUL put by `removeLine` or a CRLF before it (`Delimited`), which is what a read
    that ends in the line it began in breaks. Behind a cut request none of this is
    claimed. `Waiting` says which units a connection in `EPOLLIN` still lacks; with
    `Stream` and an empty socket it is a contradiction in every state of the parser.
  * `RequestsAuthorized`: `Identity` says that the user is the owner of the token
    shown or nobody, and that TokenManager's answers so far were right when the
    request came (`Shown`), through the three looks at the token; that tokens are
    never taken back or given to another user (`TokensKept`) keeps it true while the
    clock runs. `Fitting` carries it from the handler to `write`, `Allowed` and
    `Paged` across the states in which nothing is built yet. It holds for ragged and
    for cut requests.
  * `AnswersFit`: `Mine`, that without a cut the request parsed is the one the
    client waits for, and `Paged` and `Named`, that the page is that of the URL
    read.
  * `AnswersWhole`: `Opened` says that the part of the file that is open is the one
    asked for (a lemma about `FileAnswer`, for every range), `Halfway` that between
    two calls of `write()` the client has the whole header or nothing, unless one
    was begun again. `AnswerWhole` alone only speaks of the end.
  * `WindowIsBounded`: `Counted` bounds, for every age, the accesses let through
    since then: by the count of the window that is open if it is older, by that
    count and one full window before it if not.

Only model-checked:

* all liveness (fairness and ENABLED are beyond the prover);
* what the runs that end in a counterexample show.

Every invariant and action property of a passing run and the refinement are proved.
Where an operator would have called for induction over data it is written
position by position instead (`Encode`, the units of a request; `accepted`, the
accesses since each age), which the provers can reason about.

## 5. Not modelled

* Socket set-up, formatting of log lines and HTTP text, forms, JSON and cookies,
  reading result sets, crypto, `TcpConn` (empty bodies).
* `ConfigManager`: start-up calls `init(false)`, so the file is read once and the
  watching thread never runs; its values are the constants of the models.
* `SessionManager`: no answer sets the session cookie, so no request names a
  session, and `parseAuthContext` does nothing with the one it looks up. Its timer
  manager, like that of the tokens, is never ticked, so nothing is ever removed.
* Operations without a caller: `refreshToken`, `removeToken`, `RateLimiter::clear`.
  `sendToSession` has none either, but is what the manager is for, and is modelled.
* The data race of `sendTextFrame` with a worker's `write()` on the same string is
  a race between whole operations in WebSocket; tearing inside `std::string` is
  undefined behaviour that no property here could survive. The same holds of two
  threads inside one hiredis context: Cache has the commands and replies that get
  mixed up, not a corrupted buffer or a crash.
* Clients that send a second request before the first is answered: `init` wipes
  what of it has arrived.
* A `Content-Length` that is no number (`std::stoi` throws and nobody catches).
* Running out of memory (`mysql_stmt_init`, `new`); a signal handler that
  interrupts a thread inside a critical section; a second signal in the pipe, which
  makes `shutdown` run twice; `shutdown` closing WebSocket connections with
  `m_users_mtx` held while `sendToSession` takes the two mutexes in the other order.

## 6. Plan

What the code allows to be modelled is, and what can be proved of it. A change of the
code would begin with the exceptions of section 3: each names a line, and once
it is mended the exception can be dropped from the property, whose proof then shows
whether the repair is complete. Liveness stays with TLC.
