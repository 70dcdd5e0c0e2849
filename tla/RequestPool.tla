------------------------------ MODULE RequestPool ------------------------------
(***************************************************************************)
(* How requests share the one event loop, the threads and the database     *)
(* connections of the process (app/db/session.py, app/api/deps.py, the     *)
(* signatures of the endpoints, app/middleware/error_logger.py).           *)
(*                                                                         *)
(* A request is a plan of segments.  `async def` code runs on the loop,    *)
(* plain `def` code in a thread; each hand-over needs the loop, also that  *)
(* to db.close(), which gives the connection of the request back.  A       *)
(* session that asks for a connection while none is free waits in          *)
(* QueuePool for 30 seconds, and if it was asked on the loop, the loop     *)
(* waits with it.                                                          *)
(***************************************************************************)
EXTENDS Naturals, Sequences, FiniteSets

CONSTANTS
  Requests,      \* requests the process may have in flight
  Writers,       \* threads of the error logger's executor, 3 in the code
  Conns,         \* pool_size + max_overflow of QueuePool, 5 + 10
  Threads,       \* tokens of anyio's thread limiter, 40
  MaxQueries,    \* bound: transactions of one request
  MaxJobs        \* bound: log rows waiting for the executor

ASSUME PoolAssumption ==
  /\ IsFiniteSet(Requests) /\ IsFiniteSet(Writers)
  /\ Requests \intersect Writers = {}
  /\ Conns \in Nat \ {0}
  /\ Threads \in Nat \ {0}
  /\ MaxQueries \in Nat
  /\ MaxJobs \in Nat

\* A segment of a request's plan: where it runs and what it does with the
\* session.  "reads" leaves a transaction open, and with it the connection;
\* "commits" ends transactions as it goes.
OpenDb == [at |-> "thread", work |-> "none"]         \* get_db up to its yield
Bearer == [at |-> "thread", work |-> "reads"]        \* get_current_user
Superuser == [at |-> "thread", work |-> "none"]      \* require_superuser
Body(work) == [at |-> "loop", work |-> work]         \* an `async def` endpoint
Endpoint(work) == [at |-> "thread", work |-> work]   \* a `def` endpoint
Serialise == [at |-> "thread", work |-> "none"]      \* its response_model, if it has one

Plan == [sign |-> <<OpenDb, Body("commits")>>,       \* signup, login, refresh, POST /users
         logout |-> <<OpenDb, Bearer, Body("commits")>>,
         me |-> <<OpenDb, Bearer, Body("none")>>,
         users |-> <<OpenDb, Bearer, Superuser, Body("reads")>>,
         logs |-> <<OpenDb, Body("reads")>>,         \* GET /logs
         query |-> <<OpenDb, Endpoint("reads"), Serialise>>,  \* metrics, servers, log queries
         ingest |-> <<OpenDb, Endpoint("commits")>>]
Kinds == DOMAIN Plan

VARIABLES
  kind,      \* kind[r]: the endpoint r was sent to; "query" of an idle slot
  step,      \* step[r]: its current segment; past the last one: db.close()
  pc,        \* pc[r]: what it does there
  queries,   \* queries[r]: transactions it has begun
  free,      \* connections the pool can still hand out
  held,      \* requests and writers whose session has a connection
  jobs,      \* log rows queued for the executor
  writer     \* writer[w]: what a thread of the executor does

request == <<kind, step, pc, queries>>
logger == <<jobs, writer>>
vars == <<request, free, held, logger>>

\* "ready": a task the loop has to run.  "returned", "raised": its thread is
\* done, but only the loop's next look at the task frees the thread's token.
Points == {"idle", "ready", "running", "getting", "returned", "raised", "closing", "closed"}

TypeOK ==
  /\ kind \in [Requests -> Kinds]
  /\ step \in [Requests -> Nat \ {0}]
  /\ pc \in [Requests -> Points]
  /\ queries \in [Requests -> 0 .. MaxQueries]
  /\ free \in 0 .. Conns
  /\ held \subseteq Requests \union Writers
  /\ jobs \in 0 .. MaxJobs
  /\ writer \in [Writers -> {"idle", "getting", "writing"}]

Init ==
  /\ kind = [r \in Requests |-> "query"]
  /\ step = [r \in Requests |-> 1]
  /\ pc = [r \in Requests |-> "idle"]
  /\ queries = [r \in Requests |-> 0]
  /\ free = Conns
  /\ held = {}
  /\ jobs = 0
  /\ writer = [w \in Writers |-> "idle"]

-------------------------------------------------------------------------------
Segment(r) == Plan[kind[r]][step[r]]
Closing(r) == step[r] > Len(Plan[kind[r]])
InSegment(r) == pc[r] \in {"running", "getting"}

\* The loop is not inside a handler's body.
LoopFree == \A r \in Requests : InSegment(r) => Segment(r).at = "thread"

\* Tokens of the limiter in use.
Busy == {r \in Requests : /\ InSegment(r) \/ pc[r] \in {"returned", "raised"}
                          /\ Segment(r).at = "thread"}

Goto(r, point) == pc' = [pc EXCEPT ![r] = point]

\* The pool hands party p a connection, and takes it back.
Take(p) == free > 0 /\ free' = free - 1 /\ held' = held \union {p}
Give(p) == free' = free + 1 /\ held' = held \ {p}

-------------------------------------------------------------------------------
(* What the loop does: it starts segments and picks up what threads finished *)

Send(r, k) ==
  /\ pc[r] = "idle" /\ LoopFree
  /\ kind' = [kind EXCEPT ![r] = k]
  /\ Goto(r, "ready")
  /\ UNCHANGED <<step, queries, free, held, logger>>

BeginBody(r) ==
  /\ pc[r] = "ready" /\ LoopFree
  /\ ~Closing(r) /\ Segment(r).at = "loop"
  /\ Goto(r, "running")
  /\ UNCHANGED <<kind, step, queries, free, held, logger>>

\* A thread is started if the limiter has a token left.
BeginThread(r) ==
  /\ pc[r] = "ready" /\ LoopFree
  /\ ~Closing(r) /\ Segment(r).at = "thread"
  /\ Cardinality(Busy) < Threads
  /\ Goto(r, "running")
  /\ UNCHANGED <<kind, step, queries, free, held, logger>>

\* The task learns what its thread returned or raised.
Resume(r) ==
  /\ pc[r] \in {"returned", "raised"} /\ LoopFree
  /\ step' = [step EXCEPT ![r] = IF pc[r] = "returned" THEN @ + 1
                                 ELSE Len(Plan[kind[r]]) + 1]
  /\ Goto(r, "ready")
  /\ UNCHANGED <<kind, queries, free, held, logger>>

\* The exit of get_db runs in a thread that needs no token of the limiter.
BeginClose(r) ==
  /\ pc[r] = "ready" /\ LoopFree
  /\ Closing(r)
  /\ Goto(r, "closing")
  /\ UNCHANGED <<kind, step, queries, free, held, logger>>

\* The answer passes the error logger, which queues a row for one of status
\* 400 and above and waits for nothing.  Nothing else of the request remains.
Answer(r) ==
  /\ pc[r] = "closed" /\ LoopFree
  /\ kind' = [kind EXCEPT ![r] = "query"]
  /\ step' = [step EXCEPT ![r] = 1]
  /\ queries' = [queries EXCEPT ![r] = 0]
  /\ Goto(r, "idle")
  /\ jobs' \in {jobs, jobs + 1} /\ jobs' <= MaxJobs
  /\ UNCHANGED <<free, held, writer>>

-------------------------------------------------------------------------------
(* What a segment does, on the loop or in its thread *)

\* The first query of a transaction.
Ask(r) ==
  /\ pc[r] = "running" /\ Segment(r).work # "none"
  /\ r \notin held /\ queries[r] < MaxQueries
  /\ queries' = [queries EXCEPT ![r] = @ + 1]
  /\ Goto(r, "getting")
  /\ UNCHANGED <<kind, step, free, held, logger>>

Grant(r) ==
  /\ pc[r] = "getting"
  /\ Take(r)
  /\ Goto(r, "running")
  /\ UNCHANGED <<kind, step, queries, logger>>

\* A segment ends: in a thread the loop has yet to notice.
End(r, how) ==
  IF Segment(r).at = "thread"
    THEN Goto(r, how) /\ UNCHANGED step
    ELSE /\ Goto(r, "ready")
         /\ step' = [step EXCEPT ![r] = IF how = "returned" THEN @ + 1
                                        ELSE Len(Plan[kind[r]]) + 1]

\* A pool without a timeout.
BugWaitForEver(r) ==
  /\ pc[r] = "getting" /\ free = 0
  /\ UNCHANGED vars
\* Nothing became free for 30 seconds: TimeoutError.  The ingest endpoints
\* swallow it and go on with the next record, the others fail.
TimeOut(r) ==
  /\ pc[r] = "getting" /\ free = 0
  /\ IF kind[r] = "ingest" THEN Goto(r, "running") /\ UNCHANGED step
                           ELSE End(r, "raised")
  /\ UNCHANGED <<kind, queries, free, held, logger>>

\* A commit or a rollback gives the connection back.
Commit(r) ==
  /\ pc[r] = "running" /\ Segment(r).work = "commits"
  /\ r \in held
  /\ Give(r)
  /\ UNCHANGED <<request, logger>>

Return(r) ==
  /\ pc[r] = "running"
  /\ Segment(r).work = "reads" => r \in held
  /\ End(r, "returned")
  /\ UNCHANGED <<kind, queries, free, held, logger>>

\* An HTTPException, or an error of the database.
Raise(r) ==
  /\ pc[r] = "running"
  /\ End(r, "raised")
  /\ UNCHANGED <<kind, queries, free, held, logger>>

\* get_db without its `finally`.
BugNoClose(r) ==
  /\ pc[r] = "closing"
  /\ UNCHANGED <<free, held>>
  /\ Goto(r, "closed")
  /\ UNCHANGED <<kind, step, queries, logger>>
\* Every session gives a connection back, whether it has one or not.
BugCloseTwice(r) ==
  /\ pc[r] = "closing"
  /\ Give(r)
  /\ Goto(r, "closed")
  /\ UNCHANGED <<kind, step, queries, logger>>
\* db.close()
Close(r) ==
  /\ pc[r] = "closing"
  /\ IF r \in held THEN Give(r) ELSE UNCHANGED <<free, held>>
  /\ Goto(r, "closed")
  /\ UNCHANGED <<kind, step, queries, logger>>

-------------------------------------------------------------------------------
(* _write_log_sync in the threads of the executor *)

TakeJob(w) ==
  /\ writer[w] = "idle" /\ jobs > 0
  /\ jobs' = jobs - 1
  /\ writer' = [writer EXCEPT ![w] = "getting"]
  /\ UNCHANGED <<request, free, held>>

WriterGrant(w) ==
  /\ writer[w] = "getting"
  /\ Take(w)
  /\ writer' = [writer EXCEPT ![w] = "writing"]
  /\ UNCHANGED <<request, jobs>>

\* The row is lost.
WriterTimeOut(w) ==
  /\ writer[w] = "getting" /\ free = 0
  /\ writer' = [writer EXCEPT ![w] = "idle"]
  /\ UNCHANGED <<request, free, held, jobs>>

\* _write_log_sync without its `finally`.
BugWriterNoClose(w) ==
  /\ writer[w] = "writing"
  /\ writer' = [writer EXCEPT ![w] = "idle"]
  /\ UNCHANGED <<request, jobs, free, held>>
\* Committed or rolled back, and closed either way.
WriterClose(w) ==
  /\ writer[w] = "writing"
  /\ Give(w)
  /\ writer' = [writer EXCEPT ![w] = "idle"]
  /\ UNCHANGED <<request, jobs>>

-------------------------------------------------------------------------------
LoopStep(r) == BeginBody(r) \/ BeginThread(r) \/ Resume(r) \/ BeginClose(r) \/ Answer(r)
Work(r) == \/ Ask(r) \/ Grant(r) \/ TimeOut(r) \/ Commit(r) \/ Return(r) \/ Raise(r)
           \/ Close(r)
Write(w) == WriterGrant(w) \/ WriterTimeOut(w) \/ WriterClose(w)

Next ==
  \/ \E r \in Requests : LoopStep(r) \/ Work(r) \/ \E k \in Kinds : Send(r, k)
  \/ \E w \in Writers : TakeJob(w) \/ Write(w)

Spec == Init /\ [][Next]_vars

\* The loop and the limiter serve their queues in order; code that runs goes on
\* running; nothing is assumed of clients or of which waiter the pool serves.
FairSpec ==
  /\ Spec
  /\ \A r \in Requests : SF_vars(LoopStep(r)) /\ WF_vars(Work(r))
  /\ \A w \in Writers : WF_vars(Write(w))

-------------------------------------------------------------------------------
(* Properties *)

\* The pool's count agrees with the sessions that hold a connection, and no
\* session keeps one beyond its request or log row: whatever is raised or times
\* out, db.close() gives back what was taken (session.py 13-18).
Accounted ==
  /\ free + Cardinality(held) = Conns
  /\ \A r \in Requests : pc[r] \in {"idle", "closed"} => r \notin held
  /\ \A w \in Writers : w \in held <=> writer[w] = "writing"

\* A request or log row can only be kept waiting for a connection, and with it
\* the loop, by as many others in flight as the pool has connections: no request
\* ever takes two, its dependencies share one session (deps.py 15-33).
InFlight == {r \in Requests : pc[r] # "idle"} \union {w \in Writers : writer[w] # "idle"}
WaitNeedsFullHouse ==
  \A p \in InFlight :
    /\ free = 0
    /\ p \in Requests => pc[p] = "getting"
    /\ p \in Writers => writer[p] = "getting"
    => Cardinality(InFlight \ {p}) >= Conns

\* Every request is answered, also when the loop itself waits for a connection
\* that only the loop can have given back, and when all threads wait for one that
\* a request in need of a thread holds (list_users).
Served == \A r \in Requests : pc[r] # "idle" ~> pc[r] = "idle"
===============================================================================
