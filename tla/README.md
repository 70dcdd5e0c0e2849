# Fast-forward-BE: a formal model

TLA+ modules, TLC configurations and TLAPS proofs for the backend in `src/`: a
FastAPI application that issues and rotates JWTs, collects server metrics from
Prometheus, and stores the nginx and SSH logs that fluent-bit posts to it, over
one PostgreSQL database.

## 1. The system

### 1.1 How it runs

`scripts/fastapi.service` starts gunicorn with one Uvicorn worker, so there is
**one process with one event loop**. Three kinds of code run in it:

* **async handlers and middleware** run on the loop. None of the handlers that
  touch the database awaits anything: they call synchronous SQLAlchemy code, so
  once the loop has entered such a body nothing else runs on it until the body
  returns.
* **plain `def` handlers and dependencies** (`get_db`, `get_current_user`, the
  ingest endpoints, the queries) run in the thread pool of anyio, 40 threads.
  They interleave with the loop and with each other at every database call.
* **the metrics collector** is a task on the loop that does await (asyncpg,
  httpx, sleep).

systemd restarts the process when it exits (`Restart=always`).

### 1.2 Components

| component | state | operations | talks to |
|---|---|---|---|
| login, lock, refresh, logout (`auth_service.py`, user and token repositories, `core/security.py`, `deps.py`) | rows of `user` (`failed_login_count`, `locked_until`) and `refreshtoken` (`revoked`, `expires_at`) | `/auth/login`, `/auth/refresh`, `/auth/logout`, bearer check | database, clock, loop and thread pool |
| log ingestion (`endpoints/log.py`, `endpoints/security.py`) | rows of `nginx_logs` and `security_access_logs`; one SQLAlchemy session per post | `/logs/ingest`, `/security/logs/ingest` | fluent-bit, database |
| registration (`register`, `user_service.create_user`) | rows of `user` | `/auth/signup`, `POST /users` | database |
| loop, threads and connection pool (`db/session.py`) | QueuePool of 5 + 10 connections, 40 threads, the loop's ready queue | checkout and return of connections around every request | all handlers |
| metrics collector and lifespan (`metrics_collector.py`, `main.py`) | address table loaded once, asyncpg pool, `server_metrics` rows, the task | start, cycle, cancel | Prometheus, database |
| metrics queries (`infra_repository.py`, `endpoints/infra.py`) | none | latest, history | what the collector wrote |
| error logger (`middleware/error_logger.py`) | queue of a 3-thread executor | log an answer >= 400 | loop, database |
| auth.log parser (`security.py`), server names (`utils/common.py`) | none | `_parse_auth_log`, `resolve_server_name` | ingestion |
| log queries (`webapp_logs.py`, `log.py`, `security.py` and their repositories) | none | four pages that sort and cut | the log tables |
| WebSocket (`api/server_status.py`) | one handler per connection | `ps` once a second, error message | loop, clients |
| kill endpoint (`api/kill.py`, `scripts/kill_cpu.sh`) | none | `pgrep`, `sudo pkill` | operating system |
| configuration, routing, health check | none | | |

### 1.3 What is hard, and what makes each component correct

* **Login and lock.** The failure counter is read, incremented in Python and
  written back; lock and counter are separate columns; a lapsed lock is cleared
  by the next attempt. Correct: no failure is lost, row locked if and only if
  the counter is at five, a lock in force is never lifted, no token is issued
  under one, an account is not locked for ever.
* **Refresh and logout.** Rotation is two commits; the token string is a
  function of user and second; the bearer of a logout is checked in a thread
  before the loop runs its body. Correct: a login's chain of tokens has at most
  one valid member at any time, and none after logout, whatever faults and
  crashes fall between the commits.
* **Ingestion.** One commit per record, exceptions swallowed, 204 at the end,
  senders that time out and post the same chunk again. Correct: an
  acknowledgement means one post went through the whole batch and what it did
  not store, it could not store.
* **Registration.** Check-then-insert behind two unique indexes; an account that
  is committed but whose answer is lost. Correct: no two rows of one name or
  address; a rejected sign-up leaves no row.
* **Loop and pool.** A handler on the loop blocks in `pool.get` while the
  requests that hold the connections need the loop to give them back. Correct:
  connections are never handed out beyond the limit, none leaks, and every
  request ends.
* **Collector.** An address table that goes stale; a batch that one bad row
  spoils; `sys.exit` inside a task; cancellation at any await. Correct: a
  cycle's rows are stored together or not at all, with one timestamp; the
  shutdown ends.
* **Metrics queries.** `limit * 3` rows for `limit` points; ties and steps of
  the wall clock. Correct: each answer is what the definition of "the latest"
  and "the last N points" says.
* **Error logger.** Fire-and-forget writes that may break on either side of the
  commit, a stop with rows waiting. Correct: at most one row per failed answer,
  none forgotten short of a kill, no answer waits for its row.
* **auth.log parser.** sshd, sudo and cron write several lines about one session
  in the same words. Correct: a row is about one thing its user did, no two rows
  about the same, and nothing the patterns provide for is without its row.
* **Log pages.** Rows are stamped before they are committed, and in two time
  zones. Correct: a page that leaves a row out is full of newer ones.
* **WebSocket.** A handler that never receives, and holds the loop in `ps`.
  Correct: it ends when its client is gone, a client that stays is told of an
  error, and the server can stop.
* **Kill script.** `pkill -f stress` matches the command lines of the scripts
  themselves, and returns when it has sent its signals. Correct: "Killed" is not
  said while something that ran when it was asked for was never signalled.

`PROJECT.json` lists these hazards one by one, each at its line.

## 2. Plan

| # | module | contents | state |
|---|---|---|---|
| 1 | `Sessions` | abstract specification of refresh-token sessions | done |
| 2 | `AuthService`, `MCAuth` | login, lock, refresh, logout; refines `Sessions` | done |
| 3 | `AuthServiceProofs` | all safety properties of `AuthService`, and the refinement | done |
| 4 | `LogIngest`, `MCIngest`, `LogProofs` | both ingest endpoints, senders, acknowledgements; proved | done |
| 5 | `RequestPool`, `MCPool`, `RequestPoolProofs` | loop, threads, QueuePool and its timeout, the log writers; its safety proved | done |
| 6 | `Collector`, `MCCollector`, `CollectorProofs` | start-up, cycles, stale table, shutdown; atomicity and attribution proved | done |
| 7 | `MetricsLog`, `MetricsQuery`, `MCMetrics`, `MetricsQueryProofs` | what `Collector` promises its readers, which it refines; latest and history over every such table, against reference definitions; proved | done |
| 8 | `Signup`, `MCSignup`, `SignupProofs` | both ways to create a user; proved | done |
| 9 | `ErrorLogger` | which answers are logged and what becomes of their rows | done |
| 10 | `StatusSocket` | the WebSocket handlers | done |
| 11 | `Process`, `MCProcess`, `ProcessProofs` | `ErrorLogger` and `StatusSocket` on one loop, with one stop; the safety of all three proved, and that `Process` implements the other two | done |
| 12 | `AuthLog`, `SecurityIngest`, `MCSecurity`, `LogProofs` | the patterns over abstract lines, and the batches of `LogIngest` made of them; proved | done |
| 13 | `LogViews`, `MCLogViews`, `LogProofs` | rows stamped, then committed; the pages; proved | done |
| 14 | `KillScript`, `MCKill`, `KillScriptProofs` | overlapping scripts and the processes they strike; proved | done |

Two specifications are abstract, `Sessions` and `MetricsLog`; `AuthService` and
`Collector` refine them. Two compose components: `SecurityIngest`, which implements
`LogIngest`, and `Process`, which implements `ErrorLogger` and `StatusSocket`. What is
proved of the readers of `server_metrics` is carried over `MetricsLog` to what the
collector writes (`ChartsRight`).
Open: `RequestPool` and `AuthService` share the loop; `AuthService` assumes that
a handler gets its connection, which `RequestPool` shows to be a matter of at
most one timeout, and one module of both is beyond what TLC can enumerate.

## 3. The modules

### 3.1 `Sessions`: what rotation promises

A session is named by the token its login issued. It is `unused`, then `open`
with exactly one valid token, possibly `renewing` with none, and at last
`closed`, for good. A renewal uses a token nobody has used. No request, clock or
database occurs in it.

### 3.2 `AuthService`: login, account lock, refresh, logout

One action per database commit. `slot[w]` is a request in flight: the point of
its handler it has reached and the local values it carries (the account, whether
the password it sent is right, the count loaded with the row, the token
presented, the token minted). `failedCount` and `lockedUntil` are the columns of
`user`; `status` and `expires` those of `refreshtoken`, with `revoked` split by
the reason it was set. `streak`, `session` and `known` are history: the failures
since the last reset, the login a token descends from, the tokens some client
was sent. No guard of a handler reads `streak` or `session`; `known` says what a
client can present.

| code | actions |
|---|---|
| `login` | `LoginRefused`, `LoginBegin`, `Unlock`, `RejectPassword`, `WriteFailLog`, `WriteSecurityLog`, `AcceptPassword`, `Mint`, `Insert`, `InsertConflict`, `WriteAuthLog` |
| `refresh` | `RefreshBegin`, `Expire`, `Rotate`, then `Mint` ... `WriteAuthLog` as above |
| `get_current_user`, `logout` | `LogoutCheck`, `LogoutBegin`, `LogoutRefused`, `Logout`, `WriteAuthLog` |
| database errors, clients that hang up | `Fault`, from any point: what was committed stays |
| the process | `Crash`: all requests vanish, the tables stay |

Answers that change nothing (423 for a locked account, 401 for an unknown or
revoked token) are the guards of `LoginBegin` and `RefreshBegin`.

That a body runs alone is **not** assumed by construction: each action that
enters a body has the guard `LoopFree`, which stands for the event loop, and the
mutants of most properties drop that guard. What the code would do with a second
worker, or with the handlers moved to the thread pool, is exactly what they show.

A token is the pair of its user and the second it is minted in, because
`core/security.py` puts nothing else that varies into it; the unique index is
the guard that tells `Insert` from `InsertConflict`.

### 3.3 `LogIngest`: batches from fluent-bit

A chunk is a sequence of records of three kinds: `good` (the database would
accept it), `bad` (it refuses it) and `noise` (an auth.log line that yields no
event). Post `p` of chunk `c` is handled by `handler[c][p]`: the next record,
and whether its SQLAlchemy session awaits a rollback. A failed insert
(`Reject`, or `Strike` for a good record during a database failure, which may
have landed before the error) leaves the session as `BrokenAfter` says: usable
for nginx, whose handler rolls back, broken for the security log, whose handler
does not. A broken session refuses all further inserts (`Refuse`). The sender
(`Post`, `GiveUpWaiting`) is external: it waits, may give up, and posts again;
the abandoned handler runs on, so posts of one chunk overlap.

The tables are sets of `<<chunk, record, post>>`, so a record stored by two
posts counts as two rows, as in the database; no code removes duplicates.

### 3.4 `RequestPool`: the loop, the threads and the connections

A request is a row of `Plan`: the dependencies and the body of its endpoint in
the order FastAPI resolves them, each a segment that runs on the loop (`async
def`) or in a thread (`def`), with what it does to its session. `step[r]` is the
segment, `pc[r]` how far it is; past the last segment comes the exit of `get_db`.

* *The loop.* `BeginBody`, `BeginThread`, `Resume`, `BeginClose` and `Answer`
  need it, and `LoopFree` says it is not inside a body. A body that waits for a
  connection (`pc = "getting"`) keeps the loop.
* *Threads.* `Busy` are the tokens of anyio's limiter in use. A thread that has
  finished (`returned`, `raised`) keeps its token until the loop looks at the
  task. The exit of `get_db` runs in a thread outside that limit, as FastAPI
  gives it a limiter of its own.
* *Connections.* A session takes one at the first query of a transaction (`Ask`,
  `Grant`) and gives it back at a commit, a rollback (`Commit`) or `db.close()`
  (`Close`). A bearer check leaves its transaction open, so the request holds
  the connection while it queues for the loop, for a second thread, or for the one
  that serialises the answer of a `def` endpoint (`Serialise`). `TimeOut`
  is QueuePool's error after 30 seconds without a free connection; the ingest
  endpoints swallow it record by record, the others fail.
* *The error logger.* `Answer` may queue a row; `TakeJob` and `Writer...` are the
  threads of its executor, which compete for the same connections.

### 3.5 `Collector`: cycles, the address table, the lifespan

The collector's task is at one of its awaits: `connect`, `load`, `fetch`,
`insert`, `sleep`, `closing` (the `finally`). `table` is `ip_to_id`, resolved from
the rows of `server_info` in any order, an address in two of them going to the
later one, and then 127.0.0.1. `Fetch` takes any subset of addresses as
Prometheus' answer, which covers failed requests, unknown hosts and values that
do not parse. Two instances on one host count as one here.

| code | actions |
|---|---|
| `lifespan` | `Boot`, `Stop` (with `Cancel`), `Exit` |
| `create_db_pool` | `Connect`, `ConnectFails` |
| `load_server_info` | `Load`, `LoadFails` |
| `collect_and_store` | `Fetch`, `Gathered`, `CycleBreaks`, `Insert`, `InsertFails` |
| `main` | `BeginCycle` in `Load` and `Wake`, `ClosePool` |
| the process, other writers of `server_info` | `Crash`, `Remove`, `Readdress` |

A cancellation or a crash during `insert` leaves the rows stored or not
(`CutShort`), as the connection is cut on either side of the commit. `batch` is
history: what each cycle set out to store. `time` is `collected_at` of each cycle,
which the code puts into its rows and no guard reads. `table` is loaded once: after an
edit of `server_info` the values of an address go to the server that had it at the load
until the process restarts, and `RightServer` is about values gathered before.

### 3.6 `MetricsLog` and `MetricsQuery`: what the charts show

`MetricsLog` is the contract between the collector and its readers: a cycle begins
(`Begin`) with a wall-clock time, which may stand still or step back; then at most
one batch of it is stored (`Store`), of any metrics and hosts it got answers for, so
that cycles have holes, and for servers that exist; and the table shrinks when a
server is deleted, with all its rows. `Collector` implements it for batches of any
addresses and servers (`KeepsLog`), since an edit of `server_info` and a restart may
file an address under another server. `MetricsQuery` extends it with the queries,
which change no state: its runs and theorems are about every table `LogSpec` allows.

`get_latest_metrics` is `Joined`, `Latest` and `CreatedAt`: the join on the
greatest `collected_at` per metric, of which several rows may remain.
`get_metrics_history` is `Window`, `Point` and `History`: `limit * 3` rows by id,
grouped by time, cut to `limit`. They are compared with the definitions a reader
of the API has in mind: the rows of the newest cycle, and the last `limit` cycles
that have anything to show, each with all its values. A row stands for its value,
so an answer with another row's value is a wrong answer. `be` is filed under two
addresses, as 127.0.0.1 and its own.

### 3.7 `Signup`: two ways to create a user

`POST /auth/signup` and `POST /users` are bodies on the loop: `Check` (look-up of
name and address), `Commit` (after bcrypt), `Reread` and the answer. `BadValue` is the
ValueError for a value that cannot be looked up, stored or hashed, as one with a NUL:
400 from `/users`, which takes every ValueError for a clash, 500 from `/auth/signup`.
`Fault` is a database error at any of them, whose commit may have taken
effect (`Landed`), or the error of a unique index; that the latter does not occur
is `IndexNeverHit`. `Crash` takes all requests along. A client that retries is another
request with the same payload.

### 3.8 `ErrorLogger`: the error log

`request[r]` passes `dispatch`: `Respond` (call_next returned), `Raise` (it
raised, so nothing is logged), `Answer` (the row is submitted, the response put
together again). `Take`, `Write` and `WriteBreaks` are the threads of the
executor; a write may break after its commit. `Exit` waits for the queue, as the
interpreter joins the executor's threads; `Kill` drops it, and may leave rows of
writes under way, committed or not.

### 3.9 `StatusSocket`: the WebSocket handlers

`pc[c]` is the await a handler is at, or `turn` between awaits, when `ps` holds
the loop (`Turn`, then `Ps` or `PsFails`). `link[c]` is the connection; a send
waits while the client does not read (`stalled`). A send over a connection that
is down fails, and that is all the handler ever learns (`Disconnected`). `Stop` fails all
connections, `End` is the server's once its handlers are done, `Kill` takes handlers
and connections along.

### 3.10 `Process`: both in one process

`Process` extends `ErrorLogger` and instantiates `StatusSocket`. Requests take
steps only while no handler is in `ps` (`OnLoop`); the writers are threads and
need not care. `StopAll` is SIGTERM: no more requests, all sockets fail. The
lifespan ends (`LifespanEnds`) when requests are answered and handlers done, and
the process exits (`ExitAll`) when the log rows are written. `KillAll` is the death of
both. What the lifespan itself waits for, the collector's task, is in `Collector` (`ShutdownEnds`).

### 3.11 `AuthLog` and `SecurityIngest`: from a server to a row

`AuthLog` has what is written when somebody logs in, fails to, logs out, runs a
command by sudo, is refused, or when cron runs a job (`Written`), and what
`_parse_auth_log` makes of each line (`Parse`): the four patterns in their order,
over the words, the program, the authentication method and the blanks sudo pads
the name with. `Logs` are the orders in which the lines of several things may
stand in the file, each program's own in their order.

`SecurityIngest` extends `LogIngest` with the things that happened on the server of a
chunk and the log they left (`log[c][i]`: the thing and the line of it at place `i`).
The records are these lines (`LineOf`), `noise` where `Parse` gives `None` and
otherwise an event the database accepts or refuses. `OneRowEach` relates the two ends:
a row of a post is about a thing of its kind that its user did, and about no other
row's; and a post that was answered and had no failed insert has a row for everything of
a form the patterns provide for (`Foreseen`). Of sudo it speaks for users that it never
refused. What lies outside these premises is in section 4.1.

### 3.12 `LogViews`: the log pages

A writer stamps a row (`Stamp`), and commits it later or never (`Commit`,
`Lose`); the order of ids is the order of commits. `Stamped` is what the column
holds afterwards: `_add_auth_log` stamps with a zone, which PostgreSQL converts
when it stores into a `TIMESTAMP`; the others with Korean local time. `Pages` are
all sets `ORDER BY ... DESC LIMIT` may return. `/security/logs` takes all rows of
`nginx_logs` for the nginx server's.

### 3.13 `KillScript`: `pgrep`, `sudo pkill`

`command[r]` is what the script of a request runs. `Matching(r)` is what
`pgrep -f stress` or `pkill -f stress` finds: processes of the load test, and the
commands of other requests, which have the word in their command line.
`Scan` makes the list, `SignalStress` and `SignalCommand` go through it, and a
script whose command is struck ends with an answer of its own. A process of the load
test that is signalled (`signalled`) runs on until it ends in its own time (`Exit`), or
for ever: pkill sends SIGTERM and waits for nobody. `TimeOut` answers
the client and kills bash, but not what it waits for.

## 4. What the runs check

| run | question | result |
|---|---|---|
| `auth` | Does the lock count, trip, hold and lapse right? Does the code implement `Sessions`: one valid token per login, none after logout? Is every request answered, and a lapsed lock lifted for a user who keeps trying? Over every interleaving, fault and crash. | holds, 143 thousand states |
| `auth_rotation` | Can a refresh that revoked the old token store the new one (`auth_service.py:151`)? | **violated** |
| `ingest_nginx` | Is every acknowledged nginx record stored, unless its own insert failed, with security posts beside them? | holds, 3.5 million states |
| `ingest_security` | Is an acknowledged security event missing only behind a failed insert? Is each row about one thing its user did, no two about the same, and has an answered post without such an insert one for everything the patterns provide for, in whatever order the lines stand? | holds, 2.3 million states |
| `ingest_events` | Is every acknowledged security event the database accepts stored (`security.py:150-151`)? | **violated** |
| `pool` | Does every path give its connection back, does it take a full house to make a request wait, and is every request answered, though loop, threads and connections wait for each other? | holds, 122 thousand states |
| `collector` | Is a cycle stored whole or not at all, and for the right servers? Does the table grow as `MetricsLog` says? Does the collection survive its errors, and the shutdown end? | holds, 1.1 million states |
| `metrics` | Is the latest value that of the newest cycle, and the history the last cycles, whole? | holds, 2.1 million states |
| `signup` | Does the look-up suffice, and is what a client is told true? | holds, 33 thousand states |
| `process` | One row per failed answer, none forgotten; no answer waits for a log write; sockets end with their clients; a stop gets through all of it. | holds, 15 thousand states |
| `kill` | Behind a "Killed", was everything that ran when the request came sent the signal, or has it ended? | holds, 1.1 million states |
| `log_views` | Is a row left out of a page only for newer ones, within the difference of the zones on the mixed page? | holds, 2.2 million states |

### 4.1 The two violations

* **A refresh within one second of its login loses the session**
  (`auth_service.py:152`). `refresh` commits the revocation of the old token
  before it stores the new one. Minted in the same second for the same user, the
  new one is the same string; the unique index refuses it, the client gets a
  500, and its only token is revoked.
* **One failed insert costs the rest of a security batch**
  (`security.py:178`). The `except` branch logs and goes on without
  `db.rollback()`, which `log.py:79` has. Every later insert of the batch raises
  `PendingRollbackError`, is swallowed, and the sender is answered 204.

**Other places where code and text differ.** They showed while modelling; no run
checks them, the modules have what the code does.

* `infra.py:64` promises the last `limit` collection times. The code takes
  `limit * 3` rows (`infra_repository.py:57`), so a server that is reported under
  two addresses, as the backend's own may be (`metrics_collector.py:83-89`), gets
  about half of them, and the oldest cut in two. `HistoryRight` is stated for
  servers with one address.
* `security.py:111` says that lines no pattern takes are duplicates. The sudo
  pattern allows five blanks before the user; sudo pads the name to eight
  columns, so commands of users with names of fewer than four letters are
  dropped, and so are logins by a method that is not one word
  (`keyboard-interactive/pam`). `security.py:102` says "actual command"; a refused sudo
  has the same form and is stored as one that ran. `OneRowEach` has these cases as
  premises: it says nothing of them, and does not call them right.
* `common.py:26` says that a name not in the table is returned as it is. The
  search is by substring, so `ip-172-16-20-100` becomes `nginx-fe-server`. No module has server names
  (section 6).
* `schemas/log.py:30` says that nginx error records use `level` and `message`;
  `/security/logs` derives both from columns they do not have
  (`security.py:36-43`).
* `kill_cpu.sh:18` says "Permission denied or sudo not allowed"; with two requests
  at once it also means that the `pkill` of one struck the `sudo` of the other. In
  the same way `kill_cpu.sh:6` says "No stress process found" beside processes that
  run, when its `pgrep` was struck.
* `kill_cpu.sh:15` says "Killed stress" when the signals are sent. What was signalled
  may still run, and a process that catches SIGTERM may never end.

### 4.2 Bounds, and why they are enough

* Two slots: every property but the refinement relates at most two requests; a
  third adds no interleaving of bodies that two do not have, because bodies
  exclude each other. The proofs hold for any number.
* `MaxClock`: three values of the clock (two in `auth_rotation` suffice). With a
  lock time of one second and token lifetimes of one and two, locks set in second
  0 lapse, tokens expire, and two tokens of one user are minted in the same and in
  different seconds.
* `MaxFailures = 2`: the smallest limit with a failure that does not lock. The
  code's five is covered by the theorems, which hold for every limit.
* Accounts: one, and a name that has none, since no handler touches two rows of
  `user`. No code writes `is_active`; the proofs allow inactive accounts.
* nginx batches: all triples of kinds. A failure at the first, the middle or the
  last record, and two failures with a good record between them, occur. Two posts
  of a chunk overlap, next to two posts of an auth.log chunk that share the
  database and the crashes.
* auth.log batches: the lines, up to six, of every one or two things that happen,
  so that an event stands before, behind and between the lines of each program;
  in every order in which their programs may write them; one user with a name of four
  letters and one of eight, the most and the fewest blanks the sudo pattern takes (the
  proof has every width); methods of one word and of several; two posts.
* Pool: one connection and one thread, two requests of any endpoint and a log
  writer: the tightest case, where each circular wait of the code occurs. The
  safety properties are proved for any numbers.
* Cycles: two of one metric in `collector`, with a restart or a crash anywhere and
  two edits of `server_info`. The second cycle is the first that can meet a table
  gone stale and rows of an earlier cycle, and its clock may have gone on, stood still
  or stepped back. The three contents of `server_info`
  have each host once, one address for two servers, and a server listed as
  127.0.0.1. A cycle of one metric has up to three rows, so it can still be torn.
* `metrics`: three cycles are the least with one to cut off, one to show and one
  in between; two metrics of which a hole may hit either; two values of the clock,
  so that it advances, ties and steps back. The limit is one point of two values,
  i.e. two rows out of up to six of a server with one address.
* `signup`: three requests, two names and two addresses, so that they clash in
  either, both or none.
* `process`: two requests on one thread of the executor, so that a row waits
  behind another at a stop, and one socket. Liveness makes larger instances slow;
  the rows' safety is proved for any number.
* `kill`: three scripts, so that one is struck while it strikes, and two processes.
* `log_views`: pages of two rows out of five, two writers that overtake each
  other, a difference of the zones as large as the clock runs.

Requests are interchangeable, so `signup`, `kill` and `log_views` use symmetry;
the runs with liveness properties do not.

### 4.3 Fairness

* `WF(BodyStep(w))`: a handler on the loop is ordinary Python code that runs to
  its end. A body may still fault at any point.
* `SF(PickUp(w))`: asyncio serves its ready queue in order, so a logout whose
  dependencies are resolved is not overtaken for ever. Weak fairness would not
  express this: the loop is taken and freed again and again.
* `RetrySpec` adds a clock that advances (`WF(Tick)`), and for `AutoUnlock` a
  client that keeps trying with the right password and a database that does not
  fail its unlocking commit every single time (`SF`). Without the client nothing
  ever clears the columns: the lock lapses by being compared with the clock, and
  the row is only rewritten by the next attempt.
* `SF(LoopStep(r))` in `RequestPool`: asyncio's ready queue and anyio's limiter
  are served in order. `WF(Work(r))`, `WF(Write(w))`: code that runs goes on
  running, and a wait for a connection ends, in one or in the timeout. Which
  waiter gets a connection is left open, so a request may time out again and
  again while others are served.
* `WF(Step)` in `Collector`: the loop goes on, and what the collector awaits ends,
  if only in an error. httpx has a timeout of 10 seconds; for asyncpg this means
  a database that answers or closes the connection.

* `ProcessSpec`: `SF` of `Respond`, `Answer` and the handlers of the sockets:
  endpoints and `ps` end, and the loop takes what is ready in the order it became
  ready. Weak fairness would not do, as every `ps` holds up the rest for a while.
  `WF(Unstall)`: uvicorn drops a client whose pings go unanswered. `WF` of
  `LifespanEnds` and `ExitAll`: the main thread goes on. Nothing is assumed of the
  threads of the executor, so that `NoAnswerWaits` holds although they may stand
  still; `StopEnds` has their fairness as a premise.

Nothing is assumed of senders, faults or crashes.

## 5. What is proved

For all values of the constants that satisfy the modules'
assumptions (any number of accounts, slots, posts, requests, connections,
writers, processes, servers, metrics and cycles, batches of any length, any
lifetimes, limits and ranks):

| theorem | statement |
|---|---|
| `TypeCorrect` | `Spec => []TypeOK` |
| `OneBody` | no two bodies are on the loop |
| `LockSound`, `FailuresCounted`, `AuditSound` | `LockMatchesCount`, `NoLostFailure`, `AuditTellsRow` |
| `LockNotLifted`, `LockedOut` | `LockHolds`, `NoLoginWhileLocked` |
| `SessionHasOneToken`, `LogoutIsFinal` | `OneLivePerSession`, `LogoutEndsSession` |
| `RotationImplemented` | `Spec => S!Spec`: `AuthService` implements `Sessions` |
| `IngestTypeCorrect`, `NginxIsolation`, `SecurityLossExplained` | `TypeOK`, `NginxAckMeansStored`, `SecurityLossFollowsFailure` of `LogIngest` |
| `ImplementsIngest`, `EachThingItsRow` | `SecurityIngest` implements `LogIngest`; `OneRowEach` |
| `ViewsTypeCorrect`, `PagesNewest`, `DisplacedBound` | types, `NewestShown`, `DisplacedWithinLag` of `LogViews` |
| `PoolTypeCorrect`, `NoLeak`, `FullHouse` | `TypeOK`, `Accounted`, `WaitNeedsFullHouse` of `RequestPool` |
| `CollectorTypeCorrect`, `CyclesAreAtomic`, `ValuesAttributed` | `TypeOK`, `WholeCycles`, `RightServer` of `Collector` |
| `CollectorImplementsLog` | `Collector` implements `MetricsLog` |
| `QueryTypeCorrect`, `LatestCorrect`, `HistoryCorrect` | types, `LatestRight`, `HistoryRight` over every table of `MetricsLog` |
| `ChartsRight` | `LatestRight` and `HistoryRight` over every table of `Collector` |
| `SignupTypeCorrect`, `LookUpSuffices`, `AnswersTrue` | `TypeOK`, `IndexNeverHit`, `AnswerTells` of `Signup` |
| `LoggerTypeCorrect`, `LoggedOnce`, `QueueDrained` | `TypeOK`, `AtMostOneRow`, `NoneForgotten` of `ErrorLogger` |
| `ImplementsLogger`, `ImplementsSockets` | `ProcessSpec => Spec` of `ErrorLogger`, and of `StatusSocket` |
| `ProcessTypeCorrect`, `WhyIsTold`, `ProcessLogs` | `ProcessTypeOK`, `ErrorIsTold`, `AtMostOneRow /\ NoneForgotten` of `Process` |
| `EndsInOrder` | a process that exits has no request without its answer, no running handler, no open connection and no row that waits |
| `KillTypeCorrect`, `AllSignalled` | `TypeOK`, `NoneMissed` of `KillScript` |

**The argument for `AuthService`.** None of the properties is inductive. All of
them rest on `Exclusive` (one body on the loop), which is what makes a value
that was read still true when it is used. From it follow three facts about the
body that is running, each an invariant: `RowFresh`, the count it loaded is the
one in the row and the account is not locked between reading and writing it;
`TokenFresh`, the token it is about to revoke is still valid; and `Lineage`,
sessions are closed under descent and a rotation between its two commits has its
session to itself, without a valid token. `LockInv` joins `RowFresh` with
`LockMatchesCount` and `NoLostFailure`; `TokenInv` joins `TokenFresh` and
`Lineage` with the two session properties. The refinement then reads each step
off the token table: `Insert` opens or renews, a revocation spends or closes, a
fault or crash between the two commits of a rotation closes.

**The argument for `LogIngest`.** `Accounted`: each post can give an account of
every record it has passed, stored or excused by name. `BrokenForCause`: a
session is broken only behind a failed insert, and never in nginx's handler.
`AckedAfterAll`: an acknowledgement comes from a post that passed its last
record. The acknowledged post then accounts for the whole batch.

**The argument for `SecurityIngest`.** Its senders and handlers do what those of
`LogIngest` do, so its invariant holds, with `AnsweredAfterAll` for posts nobody
waits for any more; and nothing changes the log (`Read`). Of the lines of
one thing `Parse` takes at most the first, with the status and user of the thing
(`FirstLineCounts`: the patterns against every line any of the programs writes). In
whatever order the lines stand, each has a place of its own (`LinePlaces`), so two rows
about one thing are the same row; and the first line of a thing that counts is parsed,
which an answered post without a failed insert has stored (`ParsedMeansStored`).

**The argument for `LogViews`.** A stored row bears the stamp of its kind, which is
part of the type. A page that leaves a row out is not all of the matching rows, hence
full (`PageFull`), and what it shows sorts no later. From the order of two stamps
follows that of the times they were made at, up to the difference of the zones where
only the shown row is stamped in the zone ahead (`StampsTell`).

**The argument for `RequestPool`.** The pool's books balance: free connections
and the sessions that hold one add up to `Conns`, in every step, because a party
that asks holds none and one that gives back holds one. `FullHouse` follows by
counting: if none is free, `Conns` parties hold one, all of them are in flight,
and the one that waits is not among them.

**The argument for `Collector`.** `WholeCycles` is not inductive: it needs that
nothing of the current cycle is stored while it is gathered or inserted, and that
no row belongs to a later cycle (`CurrentCycle`), so that storing the batch
makes the cycle's rows exactly the batch. The foreign key keeps that true when a
server is deleted. `ValuesAttributed` rests on `RightTable`: until `server_info`
is edited, the table and everything gathered with it are what `server_info` says.

**The refinement of `MetricsLog`.** The current cycle's number is greater than
that of every row that is stored while its batch is gathered, which the invariant
of `WholeCycles` already gives; and the foreign key lets only rows of servers that
exist in. The start of a cycle is then a `Begin`, an insert a `Store`, a deletion a
`RemoveServer`, all else a stutter.

**The argument for `MetricsQuery`.** `LatestCorrect` needs only that rows are of
cycles begun: if the time of the newest cycle is ahead of all others, the rows
with the greatest time of a metric are those of that cycle. `HistoryCorrect`
counts. Rows behind a row of one of the last `limit` cycles are of later cycles or
of its own; with one address a cycle has at most one row per metric, so they can
be told apart by pairs of a cycle and a metric, of which there are fewer than
`limit * 3`: the window contains the last `limit` cycles whole. What else it
contains is older, and cut off after the grouping, which a clock that advances
makes a grouping by cycle. Neither needs that an address belongs to one server, so
`ChartsRight` follows from the refinement: the theorems about `MetricsLog` are cited
for the instance in which every address may be filed under every server; what they
assume of limits, ranks and the metrics shown is the hypothesis of `ChartsRight`.

**The argument for `Signup`.** One body on the loop, and a body past its look-up
that has nothing to clash with: no other body can commit in between. From that,
uniqueness and the answers follow by cases.

**The argument for `ErrorLogger`.** A submitted row is in one place only, the queue
or one thread, and is not in the table while it is there (`OnePlace`); what is
there belongs to a failed answer (`Submitted`). A thread that takes it is the only
one that can write it, and leaves it written or broken.

**The argument for `Process`.** Each of its steps is a step of `ErrorLogger` or none,
and of `StatusSocket` or none, so the invariants of both hold. For `ErrorIsTold` it is
`HandlerSoFar`, what a handler has behind it at each await: it is at the message only
after an error, at the close only after the message, and done only when its client was
told or cut off. `EndsInOrder` needs what neither part knows, that they stop in step
(`InStep`): the log hears of a stop when the sockets do, the lifespan ends behind the
last handler and the last answer, and the exit behind the lifespan.

**The argument for `KillScript`.** What ran when the request came and still runs is
on the list of its `pkill` from the moment that is made until it is signalled, and
stays signalled as long as it runs; a script struck by another never answers "Killed",
and a list that is done has nothing left of it.

**Assumed, not proved.** One worker, and handlers that do not await (`LoopFree`);
unique index on `refresh_token`; no code deletes users or tokens or changes
`is_active`; a clock that does not step back; a connection is available when a
handler of `AuthService` asks for one. In `RequestPool`: a session takes one
connection at a time (SQLAlchemy's `Session` on one engine), and the threads that
run `db.close()` are not themselves exhausted. In `Collector`: asyncpg runs an
`executemany` in one transaction; only deletions take server ids away, and ids
are not reused. In `MetricsQuery`: the ids of a batch follow its order (cycle,
metric, address), as one `executemany` inserts it. In `ErrorLogger` and `Process`:
the interpreter joins the executor's threads at exit. In `StatusSocket`: a send
over a connection that is down raises, as uvicorn and Starlette do. In
`KillScript`: process ids are not reused within a request, and sudo passes
signals on to its command, but not those its own command sends; a `pgrep`, `sudo` or
`pkill` that is signalled ends at once, while nothing is assumed of when or whether a
process of the load test does. In `AuthLog`: sudo logs the user right-aligned in eight
columns. In `LogViews`: the database's time zone is a constant difference from Korea's.

**Model-checked only.** Every safety property of the passing runs is stated by a
theorem. The liveness properties stay with TLC: `Answered`, `NoAnswerWaits`,
`AutoUnlock`, `Served`, `KeepsCollecting`, `ShutdownEnds`, `GoneIsNoticed` and `StopEnds` need
`ENABLED`, which the proof system does not treat. The two violations are TLC's
counterexamples. Nothing is claimed by induction over data: the recursion of the code
is over batches, which the models step through, and counting is left to the theorems
about finite sets.

## 6. What is not modelled

`GET /logs` and `GET /servers` return a whole table and have nothing to get wrong.
Filters of the log pages are sets of rows that match; their `ILIKE` is
PostgreSQL's. Pydantic schemas, settings, DDL and deployment scripts have no
behaviour of their own; what they fix is listed among the assumptions. The health
check is a constant. `resolve_server_name` searches a constant table and keeps no state: a
property of it could only repeat the search. Wording, levels and addresses of the security rows are left
out, so is the message of an error row. In `RequestPool`, the endpoints without a
database session (health, kill, WebSocket) are left out, although `ps` and `pkill` block the loop while they
run; so is gunicorn, which replaces a worker whose loop has been silent for its
timeout of 30 seconds, and so may pre-empt a `TimeOut` on the loop. In
`Collector`, values, units and the interval are left out. The password hash is abstracted to
whether the password is right. That a server may be deleted between the look-up and the query of `/infra/metrics`,
which shows zeros instead of a 404, is not modelled: no text says what is right.
