------------------------------- MODULE ErrorLogger -------------------------------
(***************************************************************************)
(* ErrorLoggerMiddleware (app/middleware/error_logger.py): which answers   *)
(* are logged, and what becomes of their rows.  The middleware sees every  *)
(* request from outside CORS and the routes; it hands a failed answer to   *)
(* three threads behind a queue without bound and returns it at once.      *)
(***************************************************************************)
EXTENDS Naturals

CONSTANTS
  Requests,   \* bound: the requests of a behaviour
  Writers,    \* threads of the executor, 3 in the code
  Free        \* a writer without a job

ASSUME LoggerAssumption == Free \notin Requests

VARIABLES
  process,    \* the server process
  request,    \* what each request is at
  queue,      \* submitted to the executor
  writer,     \* the request whose row a thread writes
  rows,       \* table app_logs: how many rows a request has
  broken      \* history: the requests whose write raised

jobs == <<queue, writer>>
vars == <<process, request, jobs, rows, broken>>

\* _SKIP_PREFIXES; a status below 400, or not; an exception instead of a response.
Paths == {"logged", "skipped"}
Idle == [pc |-> "idle"]
Request == [pc : {"handling", "responded", "answered", "raised", "gone"},
            path : Paths, error : BOOLEAN]

TypeOK ==
  /\ process \in {"running", "stopping", "exited", "killed"}
  /\ request \in [Requests -> Request \union {Idle}]
  /\ queue \subseteq Requests
  /\ writer \in [Writers -> Requests \union {Free}]
  /\ rows \in [Requests -> Nat]
  /\ broken \subseteq Requests

Init ==
  /\ process = "running"
  /\ request = [r \in Requests |-> Idle]
  /\ queue = {} /\ writer = [w \in Writers |-> Free]
  /\ rows = [r \in Requests |-> 0]
  /\ broken = {}

Alive == process \in {"running", "stopping"}
InFlight(r) == request[r].pc \in {"handling", "responded"}
Goto(r, point) == request' = [request EXCEPT ![r].pc = point]

-------------------------------------------------------------------------------
(* The middleware *)

Arrive(r, path) ==
  /\ process = "running" /\ request[r] = Idle
  /\ request' = [request EXCEPT ![r] = [pc |-> "handling", path |-> path, error |-> FALSE]]
  /\ UNCHANGED <<process, jobs, rows, broken>>

\* call_next returns a response.
Respond(r, error) ==
  /\ Alive /\ request[r].pc = "handling"
  /\ request' = [request EXCEPT ![r].pc = "responded", ![r].error = error]
  /\ UNCHANGED <<process, jobs, rows, broken>>

\* call_next raises what no exception handler took, or the response breaks while its
\* body is read: dispatch is left, and the 500 is made outside of it.
Raise(r) ==
  /\ Alive /\ InFlight(r)
  /\ Goto(r, "raised")
  /\ UNCHANGED <<process, jobs, rows, broken>>

Logged(r) == request[r].error /\ request[r].path = "logged"

\* The write is awaited.
BugAwaitWrite(r) ==
  /\ Alive /\ request[r].pc = "responded"
  /\ queue' = IF Logged(r) /\ rows[r] = 0 /\ r \notin broken THEN queue \union {r} ELSE queue
  /\ IF Logged(r) /\ rows[r] = 0 /\ r \notin broken THEN UNCHANGED request
                                                    ELSE Goto(r, "answered")
  /\ UNCHANGED <<process, writer, rows, broken>>
\* The skipped prefixes are forgotten.
BugLogAll(r) ==
  /\ Alive /\ request[r].pc = "responded"
  /\ queue' = IF request[r].error THEN queue \union {r} ELSE queue
  /\ Goto(r, "answered")
  /\ UNCHANGED <<process, writer, rows, broken>>
\* run_in_executor, and the response put together again.
Answer(r) ==
  /\ Alive /\ request[r].pc = "responded"
  /\ queue' = IF Logged(r) THEN queue \union {r} ELSE queue
  /\ Goto(r, "answered")
  /\ UNCHANGED <<process, writer, rows, broken>>

-------------------------------------------------------------------------------
(* _write_log_sync *)

Take(w, r) ==
  /\ Alive /\ writer[w] = Free /\ r \in queue
  /\ writer' = [writer EXCEPT ![w] = r]
  /\ queue' = queue \ {r}
  /\ UNCHANGED <<process, request, rows, broken>>

Insert(w) == rows' = [rows EXCEPT ![writer[w]] = @ + 1]

Write(w) ==
  /\ Alive /\ writer[w] # Free
  /\ Insert(w)
  /\ writer' = [writer EXCEPT ![w] = Free]
  /\ UNCHANGED <<process, request, queue, broken>>

\* The row is submitted once more.
BugTryAgain(w) ==
  /\ Alive /\ writer[w] # Free
  /\ Insert(w) \/ UNCHANGED rows
  /\ writer' = [writer EXCEPT ![w] = Free]
  /\ queue' = queue \union {writer[w]}
  /\ broken' = broken \union {writer[w]}
  /\ UNCHANGED <<process, request>>
\* Any exception is swallowed.  One raised by the commit may come after it took
\* effect, and then the rollback has nothing to undo.
WriteBreaks(w) ==
  /\ Alive /\ writer[w] # Free
  /\ Insert(w) \/ UNCHANGED rows
  /\ writer' = [writer EXCEPT ![w] = Free]
  /\ broken' = broken \union {writer[w]}
  /\ UNCHANGED <<process, request, queue>>

-------------------------------------------------------------------------------
(* The end of the process *)

Stop ==
  /\ process = "running"
  /\ process' = "stopping"
  /\ UNCHANGED <<request, jobs, rows, broken>>

\* Threads that do not outlive the main thread.
BugDaemonThreads ==
  /\ process = "stopping" /\ \A r \in Requests : ~InFlight(r)
  /\ process' = "exited"
  /\ UNCHANGED <<request, jobs, rows, broken>>
\* uvicorn waits for the answers, and the interpreter for the threads, which empty
\* the queue first.
Exit ==
  /\ process = "stopping" /\ \A r \in Requests : ~InFlight(r)
  /\ queue = {} /\ \A w \in Writers : writer[w] = Free
  /\ process' = "exited"
  /\ UNCHANGED <<request, jobs, rows, broken>>

\* A write under way may have been committed.
Kill ==
  /\ Alive
  /\ process' = "killed"
  /\ request' = [r \in Requests |-> IF InFlight(r) THEN [request[r] EXCEPT !.pc = "gone"]
                                                   ELSE request[r]]
  /\ queue' = {} /\ writer' = [w \in Writers |-> Free]
  /\ UNCHANGED rows \/ \E some \in SUBSET {writer[w] : w \in Writers} :
       rows' = [r \in Requests |-> IF r \in some THEN rows[r] + 1 ELSE rows[r]]
  /\ UNCHANGED broken

-------------------------------------------------------------------------------
LoopStep(r) == Raise(r) \/ Answer(r) \/ \E error \in BOOLEAN : Respond(r, error)
WriterStep(w) == Write(w) \/ WriteBreaks(w) \/ \E r \in Requests : Take(w, r)

Next == \/ Stop \/ Exit \/ Kill
        \/ \E r \in Requests : LoopStep(r) \/ \E path \in Paths : Arrive(r, path)
        \/ \E w \in Writers : WriterStep(w)

Spec == Init /\ [][Next]_vars

-------------------------------------------------------------------------------
(* Properties *)

\* A failed answer has at most one row, also if its write broke after the commit;
\* an answer below 400, a skipped path and an exception have none
\* (error_logger.py 42-63, 75-93).
AtMostOneRow ==
  \A r \in Requests : rows[r] > 0 =>
    rows[r] = 1 /\ request[r].pc = "answered" /\ Logged(r)

\* Unless the process is killed, no row of a failed answer is forgotten: it waits, is
\* being written, is in the table or its write raised; a stop writes what is waiting
\* first (error_logger.py 80-93).
Waiting(r) == r \in queue \/ \E w \in Writers : writer[w] = r
NoneForgotten ==
  \A r \in Requests : request[r].pc = "answered" /\ Logged(r) =>
    /\ process \in {"running", "stopping"} => Waiting(r) \/ rows[r] = 1 \/ r \in broken
    /\ process = "exited" => rows[r] = 1 \/ r \in broken
===============================================================================
