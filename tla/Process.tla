--------------------------------- MODULE Process ---------------------------------
(***************************************************************************)
(* The requests of ErrorLogger and the connections of StatusSocket in one  *)
(* server process: one event loop, which ps holds, and one stop, which     *)
(* waits for both and for the threads of the error log                     *)
(* (create_app, app/main.py).                                              *)
(***************************************************************************)
EXTENDS ErrorLogger

CONSTANT Clients

VARIABLES link, pc, failed, told, cut, server    \* of StatusSocket

W == INSTANCE StatusSocket

sockets == <<link, pc, failed, told, cut, server>>
all == <<process, request, queue, writer, rows, broken, sockets>>

ProcessInit == Init /\ W!Init

\* The variables of both modules keep their types, and a job of the executor is that of a
\* request whose failed answer is to be logged (error_logger.py 75-93, server_status.py).
ProcessTypeOK ==
  /\ TypeOK /\ W!TypeOK
  /\ \A r \in Requests : Waiting(r) => request[r].pc = "answered" /\ Logged(r)

-------------------------------------------------------------------------------
OnLoop(A) == W!LoopFree /\ A /\ UNCHANGED sockets

Requested(r) == OnLoop(LoopStep(r) \/ \E path \in Paths : Arrive(r, path))

Socket(c) ==
  /\ W!Connect(c) \/ W!Handler(c) \/ W!Drop(c) \/ W!Stall(c) \/ W!Read(c)
  /\ UNCHANGED vars

Written(w) == WriterStep(w) /\ UNCHANGED sockets

\* SIGTERM: no connection is accepted any more, and every socket is failed.
StopAll == Stop /\ W!Stop

\* Requests answered and handlers done, the lifespan ends.
LifespanEnds ==
  /\ \A r \in Requests : ~InFlight(r)
  /\ W!End
  /\ UNCHANGED vars

\* The main thread returns, and the interpreter joins the threads of the executor.
ExitAll ==
  /\ server = "ended"
  /\ Exit
  /\ UNCHANGED sockets

KillAll == Kill /\ W!Kill

ProcessNext ==
  \/ StopAll \/ LifespanEnds \/ ExitAll \/ KillAll
  \/ \E r \in Requests : Requested(r)
  \/ \E c \in Clients : Socket(c)
  \/ \E w \in Writers : Written(w)

\* A client that does not read is dropped, when its pings go unanswered, or reads again.
Unstall(c) == link[c] = "stalled" /\ (W!Drop(c) \/ W!Read(c)) /\ UNCHANGED vars

\* ps and the endpoints end, and the loop takes what is ready in the order it became
\* ready, so that nothing is passed over for ever although each ps holds up the rest.
\* Nothing is assumed of the threads, whose database may be slow.
ProcessSpec ==
  /\ ProcessInit /\ [][ProcessNext]_all
  /\ \A r \in Requests : /\ SF_all(OnLoop(Answer(r)))
                         /\ SF_all(OnLoop(\E error \in BOOLEAN : Respond(r, error)))
  /\ \A c \in Clients : /\ SF_all(W!Handler(c) /\ UNCHANGED vars)
                        /\ WF_all(Unstall(c))
  /\ WF_all(LifespanEnds) /\ WF_all(ExitAll)

-------------------------------------------------------------------------------
(* Properties *)

\* A client that stays hears why its connection ends, whatever else the process does
\* (server_status.py 40-58).
ErrorIsTold == W!ErrorIsTold

\* No answer waits for the log, whatever the threads are doing, nor for ever for the ps
\* of the sockets (error_logger.py 80-93, server_status.py 17).
NoAnswerWaits == \A r \in Requests : InFlight(r) ~> ~InFlight(r)

\* The handler of a client that is gone ends, though it never receives; it does not run
\* ps once a second for nobody (server_status.py 30-38).
GoneIsNoticed == \A c \in Clients : link[c] = "down" ~> pc[c] = "done"

\* If the threads of the executor run, a stop gets as far as the exit, with requests in
\* flight, sockets open and rows waiting (main.py 33-38).
StopEnds ==
  (\A w \in Writers : WF_all(Written(w))) =>
    (process = "stopping" ~> process \in {"exited", "killed"})
===============================================================================
