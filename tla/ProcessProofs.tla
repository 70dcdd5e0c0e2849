------------------------------ MODULE ProcessProofs ------------------------------
(***************************************************************************)
(* The safety properties of ErrorLogger and StatusSocket, and that they    *)
(* survive their composition in one process, for any number of requests,   *)
(* writers and clients.                                                    *)
(***************************************************************************)
EXTENDS Process, TLAPS

\* A submitted row is in one place, and only there.
OnePlace ==
  /\ \A r \in queue : rows[r] = 0 /\ \A w \in Writers : writer[w] # r
  /\ \A w \in Writers : writer[w] # Free => rows[writer[w]] = 0
  /\ \A v, w \in Writers : writer[v] = writer[w] /\ writer[v] # Free => v = w

\* What is submitted is a failed answer, and waits only while the process is alive.
Submitted ==
  /\ \A r \in Requests : Waiting(r) => request[r].pc = "answered" /\ Logged(r)
  /\ ~Alive => queue = {} /\ \A w \in Writers : writer[w] = Free

LoggerInv == TypeOK /\ OnePlace /\ Submitted /\ AtMostOneRow /\ NoneForgotten

-------------------------------------------------------------------------------
\* A step of the middleware.
LEMMA RequestStep ==
  ASSUME LoggerAssumption, LoggerInv, NEW r \in Requests,
         LoopStep(r) \/ \E path \in Paths : Arrive(r, path)
  PROVE  LoggerInv'
<1> USE DEF LoggerInv, jobs
<1>1. request[r] # Idle => request[r] \in Request
  BY DEF TypeOK
<1>2. CASE \E path \in Paths : Arrive(r, path)
  <2>1. request[r].pc = "idle" /\ request'[r].pc = "handling" /\ request'[r] \in Request
    BY <1>2 DEF Arrive, TypeOK, Idle, Request, Paths
  <2>2. /\ \A q \in Requests \ {r} : request'[q] = request[q]
        /\ UNCHANGED <<process, queue, writer, rows, broken>>
    BY <1>2 DEF Arrive, TypeOK
  <2>3. TypeOK'
    BY <1>2, <2>1, <2>2 DEF Arrive, TypeOK
  <2>4. OnePlace' /\ Submitted'
    BY <2>1, <2>2 DEF OnePlace, Submitted, Waiting, Logged, Alive, TypeOK
  <2>5. AtMostOneRow' /\ NoneForgotten'
    BY <2>1, <2>2 DEF AtMostOneRow, NoneForgotten, Waiting, Logged
  <2> QED
    BY <2>3, <2>4, <2>5
<1>3. CASE Raise(r) \/ \E error \in BOOLEAN : Respond(r, error)
  <2>1. /\ request[r].pc \in {"handling", "responded"} /\ request'[r].pc \in {"raised", "responded"}
        /\ request'[r] \in Request
        /\ \A q \in Requests \ {r} : request'[q] = request[q]
        /\ request' \in [Requests -> Request \union {Idle}]
    BY <1>1, <1>3 DEF Raise, Respond, Goto, InFlight, TypeOK, Idle, Request
  <2>2. UNCHANGED <<process, queue, writer, rows, broken>>
    BY <1>3 DEF Raise, Respond
  <2>3. TypeOK'
    BY <2>1, <2>2 DEF TypeOK
  <2>4. OnePlace' /\ Submitted'
    BY <2>1, <2>2 DEF OnePlace, Submitted, Waiting, Logged, Alive, TypeOK
  <2>5. AtMostOneRow' /\ NoneForgotten'
    BY <2>1, <2>2 DEF AtMostOneRow, NoneForgotten, Waiting, Logged
  <2> QED
    BY <2>3, <2>4, <2>5
<1>4. CASE Answer(r)
  <2>1. /\ Alive /\ request[r].pc = "responded" /\ request'[r].pc = "answered"
        /\ request' \in [Requests -> Request \union {Idle}]
        /\ Logged(r)' = Logged(r)
        /\ \A q \in Requests \ {r} : request'[q] = request[q]
    BY <1>1, <1>4 DEF Answer, Goto, Logged, TypeOK, Idle, Request
  <2>2. /\ queue' = IF Logged(r) THEN queue \union {r} ELSE queue
        /\ UNCHANGED <<process, writer, rows, broken>>
    BY <1>4 DEF Answer
  <2>3. rows[r] = 0 /\ ~Waiting(r)
    BY <2>1 DEF Submitted, AtMostOneRow, TypeOK
  <2>4. TypeOK'
    BY <2>1, <2>2 DEF TypeOK
  <2>5. OnePlace'
    BY <2>2, <2>3 DEF OnePlace, Waiting
  <2>6. Submitted'
    <3>1. \A q \in Requests \ {r} : Waiting(q)' <=> Waiting(q)
      BY <2>2 DEF Waiting
    <3>2. Waiting(r)' => Logged(r)
      BY <2>2, <2>3 DEF Waiting
    <3> QED
      BY <2>1, <2>2, <3>1, <3>2 DEF Submitted, Logged, Alive
  <2>7. AtMostOneRow' /\ NoneForgotten'
    <3>1. AtMostOneRow'
      BY <2>1, <2>2, <2>3 DEF AtMostOneRow, Logged
    <3>2. \A q \in Requests : Waiting(q) => Waiting(q)'
      BY <2>2 DEF Waiting
    <3>3. Logged(r) => Waiting(r)'
      BY <2>2 DEF Waiting
    <3>4. process' \in {"running", "stopping"}
      BY <2>1, <2>2 DEF Alive
    <3> QED
      BY <2>1, <2>2, <3>1, <3>2, <3>3, <3>4 DEF NoneForgotten, Logged
  <2> QED
    BY <2>4, <2>5, <2>6, <2>7
<1> QED
  BY <1>2, <1>3, <1>4 DEF LoopStep

\* A step of a writer.
LEMMA WriterPreserves ==
  ASSUME LoggerAssumption, LoggerInv, NEW w \in Writers, WriterStep(w)
  PROVE  LoggerInv'
<1> USE DEF LoggerInv, jobs
<1>1. Alive /\ UNCHANGED <<process, request>>
  BY DEF WriterStep, Write, WriteBreaks, Take
<1>2. CASE \E r \in Requests : Take(w, r)
  <2>1. PICK r \in Requests : Take(w, r)
    BY <1>2
  <2>2. /\ r \in queue /\ writer[w] = Free /\ queue' = queue \ {r}
        /\ writer'[w] = r /\ \A v \in Writers \ {w} : writer'[v] = writer[v]
        /\ UNCHANGED <<rows, broken>>
    BY <2>1 DEF Take, TypeOK
  <2>3. TypeOK'
    BY <1>1, <2>1 DEF Take, TypeOK
  <2>4. OnePlace'
    BY <2>2, LoggerAssumption DEF OnePlace, LoggerAssumption
  <2>5. \A q \in Requests : Waiting(q)' <=> Waiting(q)
    BY <2>2, LoggerAssumption DEF Waiting, LoggerAssumption
  <2>6. Submitted' /\ AtMostOneRow' /\ NoneForgotten'
    BY <1>1, <2>2, <2>5 DEF Submitted, AtMostOneRow, NoneForgotten, Logged, Alive
  <2> QED
    BY <2>3, <2>4, <2>6
<1>3. CASE Write(w) \/ WriteBreaks(w)
  <2>1. PICK r \in Requests :
        /\ r = writer[w] /\ r \notin queue /\ rows[r] = 0
        /\ request[r].pc = "answered" /\ Logged(r)
        /\ \A v \in Writers : writer[v] = r => v = w
    BY <1>3 DEF Write, WriteBreaks, TypeOK, OnePlace, Submitted, Waiting
  <2>2. /\ writer'[w] = Free /\ \A v \in Writers \ {w} : writer'[v] = writer[v]
        /\ queue' = queue
        /\ rows'[r] \in {0, 1} /\ \A q \in Requests \ {r} : rows'[q] = rows[q]
        /\ rows' \in [Requests -> Nat]
        /\ writer' \in [Writers -> Requests \union {Free}]
    BY <1>3, <2>1 DEF Write, WriteBreaks, Insert, TypeOK
  <2>3. /\ broken \subseteq broken' /\ broken' \subseteq Requests
        /\ rows'[r] = 1 \/ r \in broken'
    BY <1>3, <2>1 DEF Write, WriteBreaks, Insert, TypeOK
  <2>4. TypeOK'
    BY <1>1, <2>2, <2>3 DEF TypeOK
  <2>5. OnePlace'
    BY <2>1, <2>2, LoggerAssumption DEF OnePlace, TypeOK, LoggerAssumption
  <2>6. \A q \in Requests \ {r} : Waiting(q)' <=> Waiting(q)
    BY <2>1, <2>2, LoggerAssumption DEF Waiting, LoggerAssumption
  <2>7. ~Waiting(r)'
    BY <2>1, <2>2, LoggerAssumption DEF Waiting, LoggerAssumption
  <2>8. Submitted'
    BY <1>1, <2>6, <2>7 DEF Submitted, Logged, Alive
  <2>9. AtMostOneRow' /\ NoneForgotten'
    BY <1>1, <2>1, <2>2, <2>3, <2>6 DEF AtMostOneRow, NoneForgotten, Logged, Alive
  <2> QED
    BY <2>4, <2>5, <2>8, <2>9
<1> QED
  BY <1>2, <1>3 DEF WriterStep

\* A stop, an exit, a kill.
LEMMA ProcessPreserves ==
  ASSUME LoggerAssumption, LoggerInv, Stop \/ Exit \/ Kill
  PROVE  LoggerInv'
<1> USE DEF LoggerInv, jobs
<1>1. CASE Stop
  BY <1>1 DEF Stop, TypeOK, OnePlace, Submitted, Waiting, AtMostOneRow, NoneForgotten, Logged, Alive
<1>2. CASE Exit
  <2>1. UNCHANGED <<request, queue, writer, rows, broken>> /\ process' = "exited"
    BY <1>2 DEF Exit
  <2>2. \A r \in Requests : ~Waiting(r)
    BY <1>2, LoggerAssumption DEF Exit, Waiting, LoggerAssumption
  <2>3. process = "stopping"
    BY <1>2 DEF Exit
  <2>4. TypeOK' /\ OnePlace'
    BY <2>1 DEF TypeOK, OnePlace
  <2>5. Submitted'
    BY <1>2, <2>1 DEF Exit, Submitted, Waiting, Logged
  <2>6. AtMostOneRow' /\ NoneForgotten'
    BY <2>1, <2>2, <2>3 DEF AtMostOneRow, NoneForgotten, Logged
  <2> QED
    BY <2>4, <2>5, <2>6
<1>3. CASE Kill
  <2>1. \A r \in Requests : request'[r] = IF InFlight(r) THEN [request[r] EXCEPT !.pc = "gone"]
                                                         ELSE request[r]
    BY <1>3 DEF Kill
  <2>2. \A r \in Requests : request'[r] \in Request \union {Idle}
    <3>1. \A r \in Requests : InFlight(r) => request[r] \in Request
      BY DEF InFlight, TypeOK, Idle
    <3>2. \A q \in Request : [q EXCEPT !.pc = "gone"] \in Request
      BY DEF Request
    <3> QED
      BY <2>1, <3>1, <3>2 DEF TypeOK
  <2>3. process' = "killed" /\ queue' = {} /\ broken' = broken
        /\ writer' = [w \in Writers |-> Free]
    BY <1>3 DEF Kill
  <2>4. PICK some \in SUBSET {writer[w] : w \in Writers} :
          rows' = [r \in Requests |-> IF r \in some THEN rows[r] + 1 ELSE rows[r]]
    <3>1. CASE UNCHANGED rows
      <4>1. rows' = [r \in Requests |-> IF r \in {} THEN rows[r] + 1 ELSE rows[r]]
        BY <3>1 DEF TypeOK
      <4>2. {} \in SUBSET {writer[w] : w \in Writers}
        OBVIOUS
      <4> QED
        BY <4>1, <4>2
    <3> QED
      BY <1>3, <3>1 DEF Kill
  <2>5. \A r \in Requests : r \in some => rows[r] = 0 /\ request[r].pc = "answered" /\ Logged(r)
    BY LoggerAssumption DEF OnePlace, Submitted, Waiting, LoggerAssumption
  <2>6. TypeOK'
    BY <1>3, <2>2, <2>3, <2>4 DEF TypeOK, Kill
  <2>7. OnePlace'
    BY <2>3 DEF OnePlace
  <2>8. Submitted'
    BY <2>3, LoggerAssumption DEF Submitted, Waiting, LoggerAssumption
  <2>9. AtMostOneRow'
    <3>1. ASSUME NEW r \in Requests, rows'[r] > 0
          PROVE  rows'[r] = 1 /\ request[r].pc = "answered" /\ Logged(r)
      BY <2>4, <2>5, <3>1 DEF AtMostOneRow
    <3> QED
      BY <2>1, <3>1 DEF AtMostOneRow, InFlight, Logged
  <2>10. NoneForgotten'
    BY <2>3 DEF NoneForgotten
  <2> QED
    BY <2>6, <2>7, <2>8, <2>9, <2>10
<1> QED
  BY <1>1, <1>2, <1>3

\* The invariant is inductive.
THEOREM LoggerInvariant == Spec => []LoggerInv
<1>1. ASSUME LoggerAssumption, Init
      PROVE  LoggerInv
  BY <1>1 DEF Init, LoggerInv, TypeOK, OnePlace, Submitted, Waiting, AtMostOneRow, NoneForgotten,
     Idle, LoggerAssumption, Alive
<1>2. ASSUME LoggerInv, UNCHANGED vars
      PROVE  LoggerInv'
  BY <1>2 DEF vars, jobs, LoggerInv, TypeOK, OnePlace, Submitted, Waiting, AtMostOneRow,
     NoneForgotten, Logged, Alive
<1>3. ASSUME LoggerAssumption, LoggerInv, [Next]_vars
      PROVE  LoggerInv'
  BY <1>2, <1>3, RequestStep, WriterPreserves, ProcessPreserves DEF Next
<1> QED
  BY <1>1, <1>3, LoggerAssumption, PTL DEF Spec

\* Every variable keeps its type.
THEOREM LoggerTypeCorrect == Spec => []TypeOK
BY LoggerInvariant, PTL DEF LoggerInv

\* No answer is logged twice, and none that should not be.
THEOREM LoggedOnce == Spec => []AtMostOneRow
BY LoggerInvariant, PTL DEF LoggerInv

\* Nothing that was submitted is forgotten, short of a kill.
THEOREM QueueDrained == Spec => []NoneForgotten
BY LoggerInvariant, PTL DEF LoggerInv

-------------------------------------------------------------------------------
(* The sockets *)

\* What a handler has behind it where it is, and why its connection is down.
HandlerSoFar(c) ==
  /\ link[c] = "none" <=> pc[c] = "none"
  /\ pc[c] = "error" => c \in failed
  /\ pc[c] = "close" => c \in told
  /\ link[c] = "down" => pc[c] = "done" \/ c \in cut
  /\ pc[c] = "done" => c \in told \union cut

SocketInv == W!TypeOK /\ \A c \in Clients : HandlerSoFar(c)

\* A step of the handler of one connection, or of its client.
LEMMA ConnectionPreserves ==
  ASSUME SocketInv, NEW c \in Clients,
         W!Connect(c) \/ W!Handler(c) \/ W!Drop(c) \/ W!Stall(c) \/ W!Read(c)
  PROVE  SocketInv'
<1> USE DEF SocketInv
<1>1. \A d \in Clients \ {c} :
        /\ link'[d] = link[d] /\ pc'[d] = pc[d]
        /\ d \in failed' <=> d \in failed
        /\ d \in told' <=> d \in told
        /\ d \in cut' <=> d \in cut
  BY DEF W!TypeOK, W!Connect, W!Handler, W!Drop, W!Stall, W!Read, W!Turn, W!Ps, W!PsFails,
     W!Sent, W!Told, W!Close, W!Disconnected, W!Goto
<1>2. \A d \in Clients \ {c} : HandlerSoFar(d)'
  BY <1>1 DEF HandlerSoFar
<1>3. CASE W!Connect(c)
  BY <1>2, <1>3 DEF W!Connect, W!Goto, W!TypeOK, W!Awaits, HandlerSoFar
<1>4. CASE W!Turn(c) \/ W!Ps(c) \/ W!Sent(c)
  BY <1>2, <1>4 DEF W!Turn, W!Ps, W!Sent, W!Goto, W!TypeOK, W!Awaits, HandlerSoFar
<1>5. CASE W!PsFails(c) \/ W!Told(c)
  BY <1>2, <1>5 DEF W!PsFails, W!Told, W!Goto, W!TypeOK, W!Awaits, HandlerSoFar
<1>6. CASE W!Close(c) \/ W!Disconnected(c)
  BY <1>2, <1>6 DEF W!Close, W!Disconnected, W!Goto, W!TypeOK, W!Awaits, HandlerSoFar
<1>7. CASE W!Drop(c) \/ W!Stall(c) \/ W!Read(c)
  BY <1>2, <1>7 DEF W!Drop, W!Stall, W!Read, W!TypeOK, W!Awaits, HandlerSoFar
<1> QED
  BY <1>3, <1>4, <1>5, <1>6, <1>7 DEF W!Handler

\* A stop, the end of the lifespan, the death of the process.
LEMMA ServerPreserves ==
  ASSUME SocketInv, W!Stop \/ W!End \/ W!Kill
  PROVE  SocketInv'
<1> USE DEF SocketInv
<1>1. CASE W!Stop
  BY <1>1 DEF W!Stop, W!TypeOK, HandlerSoFar
<1>2. CASE W!End
  BY <1>2 DEF W!End, W!TypeOK, HandlerSoFar
<1>3. CASE W!Kill
  BY <1>3 DEF W!Kill, W!TypeOK, HandlerSoFar
<1> QED
  BY <1>1, <1>2, <1>3

\* The sockets' invariant is inductive.
THEOREM SocketInvariant == W!Spec => []SocketInv
<1>1. W!Init => SocketInv
  BY DEF W!Init, SocketInv, W!TypeOK, HandlerSoFar
<1>2. ASSUME SocketInv, UNCHANGED W!vars
      PROVE  SocketInv'
  BY <1>2 DEF W!vars, SocketInv, W!TypeOK, HandlerSoFar
<1>3. ASSUME SocketInv, [W!Next]_(W!vars)
      PROVE  SocketInv'
  BY <1>2, <1>3, ConnectionPreserves, ServerPreserves DEF W!Next
<1> QED
  BY <1>1, <1>3, PTL DEF W!Spec

-------------------------------------------------------------------------------
(* The process *)

\* For the log the process behaves as if there were no sockets: each step of a socket
\* changes nothing of the log's, and every other step is one of the log's own.
THEOREM ImplementsLogger == ProcessSpec => Spec
<1>1. ProcessInit => Init
  BY DEF ProcessInit
<1>2. [ProcessNext]_all => [Next]_vars
  BY DEF ProcessNext, StopAll, LifespanEnds, ExitAll, KillAll, Requested, Socket, Written,
     OnLoop, all, vars, jobs, Next
<1>3. ProcessSpec => ProcessInit /\ [][ProcessNext]_all
  BY PTL DEF ProcessSpec
<1> QED
  BY <1>1, <1>2, <1>3, PTL DEF Spec

\* And for the sockets as if there were no requests but a loop that is held up.
THEOREM ImplementsSockets == ProcessSpec => W!Spec
<1>1. ProcessInit => W!Init
  BY DEF ProcessInit
<1>2. [ProcessNext]_all => [W!Next]_(W!vars)
  BY DEF ProcessNext, StopAll, LifespanEnds, ExitAll, KillAll, Requested, Socket, Written,
     OnLoop, all, sockets, W!vars, W!Next
<1>3. ProcessSpec => ProcessInit /\ [][ProcessNext]_all
  BY PTL DEF ProcessSpec
<1> QED
  BY <1>1, <1>2, <1>3, PTL DEF W!Spec

\* Every variable of the process keeps its type, and every job of the executor is that of a
\* failed answer to be logged.
THEOREM ProcessTypeCorrect == ProcessSpec => []ProcessTypeOK
<1>1. LoggerInv /\ SocketInv => ProcessTypeOK
  BY DEF LoggerInv, Submitted, SocketInv, ProcessTypeOK
<1> QED
  BY <1>1, ImplementsLogger, ImplementsSockets, LoggerInvariant, SocketInvariant, PTL

\* No connection of a client that stays ends without the client hearing why, however
\* requests, ps, a stop or the death of the process come in between.
THEOREM WhyIsTold == ProcessSpec => []ErrorIsTold
<1>1. SocketInv => ErrorIsTold
  BY DEF SocketInv, HandlerSoFar, ErrorIsTold, W!ErrorIsTold
<1> QED
  BY <1>1, ImplementsSockets, SocketInvariant, PTL

\* No answer of the process is logged twice, and none of its rows is forgotten.
THEOREM ProcessLogs == ProcessSpec => [](AtMostOneRow /\ NoneForgotten)
BY ImplementsLogger, LoggedOnce, QueueDrained, PTL

-------------------------------------------------------------------------------
(* The order of the end *)

\* The log and the sockets hear of a stop together; a stopping server fails its sockets,
\* and the lifespan ends behind the last handler and the last answer.
InStep ==
  /\ process = "running" <=> server = "up"
  /\ process \in {"exited", "killed"} => server = "ended"
  /\ server # "up" => \A c \in Clients : link[c] \in {"none", "down"}
  /\ server = "ended" => /\ \A c \in Clients : pc[c] \in {"none", "done"}
                         /\ \A r \in Requests : ~InFlight(r)

\* A process that exits leaves nothing behind: no request without its answer, no handler
\* of a socket, no connection, no row that was submitted and not written
\* (main.py 33-38, error_logger.py 19, server_status.py 30-58).
CleanExit ==
  process = "exited" =>
    /\ \A r \in Requests : ~InFlight(r) /\ ~Waiting(r)
    /\ \A c \in Clients : pc[c] \in {"none", "done"} /\ link[c] \in {"none", "down"}

\* A step of one socket keeps the two in step.
LEMMA SocketInStep ==
  ASSUME TypeOK, W!TypeOK, InStep, NEW c \in Clients, Socket(c)
  PROVE  InStep'
<1>1. UNCHANGED <<process, request>> /\ server' = server
  BY DEF Socket, vars, W!Connect, W!Handler, W!Drop, W!Stall, W!Read, W!Turn, W!Ps, W!PsFails,
     W!Sent, W!Told, W!Close, W!Disconnected
<1>2. server # "up" => \A d \in Clients : link'[d] \in {"none", "down"}
  BY DEF InStep, Socket, W!TypeOK, W!Connect, W!Handler, W!Drop, W!Stall, W!Read, W!Turn, W!Ps,
     W!PsFails, W!Sent, W!Told, W!Close, W!Disconnected
<1>3. server = "ended" => pc' = pc
  BY DEF InStep, Socket, W!Awaits, W!Connect, W!Handler, W!Drop, W!Stall, W!Read, W!Turn, W!Ps,
     W!PsFails, W!Sent, W!Told, W!Close, W!Disconnected
<1> QED
  BY <1>1, <1>2, <1>3 DEF InStep, InFlight

\* A step of a request or of a thread keeps the two in step.
LEMMA LogInStep ==
  ASSUME TypeOK, InStep,
         (\E r \in Requests : Requested(r)) \/ (\E w \in Writers : Written(w))
  PROVE  InStep'
<1>1. UNCHANGED <<process, link, pc, server>>
  BY DEF Requested, OnLoop, Written, sockets, LoopStep, Raise, Answer, Respond, Arrive,
     WriterStep, Write, WriteBreaks, Take
<1>2. ASSUME server = "ended", NEW q \in Requests
      PROVE  ~InFlight(q)'
  <2>1. CASE \E w \in Writers : Written(w)
    BY <1>2, <2>1 DEF InStep, InFlight, Written, WriterStep, Write, WriteBreaks, Take
  <2>2. CASE \E r \in Requests : Requested(r)
    <3>1. PICK r \in Requests : Requested(r)
      BY <2>2
    <3>2. ~InFlight(r) /\ process # "running"
      BY <1>2 DEF InStep
    <3> QED
      BY <3>1, <3>2 DEF Requested, OnLoop, LoopStep, Raise, Answer, Respond, Arrive, InFlight
  <2> QED
    BY <2>1, <2>2
<1> QED
  BY <1>1, <1>2 DEF InStep

\* A stop, the end of the lifespan, an exit or a kill keeps the two in step.
LEMMA EndInStep ==
  ASSUME TypeOK, W!TypeOK, InStep, StopAll \/ LifespanEnds \/ ExitAll \/ KillAll
  PROVE  InStep'
<1>1. CASE StopAll
  BY <1>1 DEF StopAll, Stop, W!Stop, InStep, InFlight, W!TypeOK
<1>2. CASE LifespanEnds
  BY <1>2 DEF LifespanEnds, W!End, vars, InStep, InFlight
<1>3. CASE ExitAll
  BY <1>3 DEF ExitAll, Exit, sockets, InStep, InFlight
<1>4. CASE KillAll
  <2>1. process' = "killed" /\ server' = "ended"
    BY <1>4 DEF KillAll, Kill, W!Kill
  <2>2. \A c \in Clients : link'[c] \in {"none", "down"} /\ pc'[c] \in {"none", "done"}
    BY <1>4 DEF KillAll, W!Kill
  <2>3. \A r \in Requests : request'[r] = IF InFlight(r) THEN [request[r] EXCEPT !.pc = "gone"]
                                                         ELSE request[r]
    BY <1>4 DEF KillAll, Kill
  <2>4. \A r \in Requests : InFlight(r) => request[r] \in Request
    BY DEF InFlight, TypeOK, Idle
  <2>5. \A r \in Requests : ~InFlight(r)'
    BY <2>3, <2>4 DEF InFlight, Request
  <2> QED
    BY <2>1, <2>2, <2>5 DEF InStep
<1> QED
  BY <1>1, <1>2, <1>3, <1>4

\* A process that exits has kept every promise it made before: the answers, the handlers
\* and the rows.
THEOREM EndsInOrder == ProcessSpec => []CleanExit
<1>1. ProcessInit => InStep
  BY DEF ProcessInit, Init, W!Init, InStep, InFlight, Idle
<1>2. ProcessTypeOK /\ InStep /\ [ProcessNext]_all => InStep'
  <2> SUFFICES ASSUME ProcessTypeOK, InStep, [ProcessNext]_all PROVE InStep'
    OBVIOUS
  <2>1. TypeOK /\ W!TypeOK
    BY DEF ProcessTypeOK
  <2>2. CASE UNCHANGED all
    BY <2>2 DEF all, sockets, InStep, InFlight
  <2> QED
    BY <2>1, <2>2, SocketInStep, LogInStep, EndInStep DEF ProcessNext
<1>3. ProcessSpec => ProcessInit /\ [][ProcessNext]_all
  BY PTL DEF ProcessSpec
<1>4. InStep /\ LoggerInv => CleanExit
  BY LoggerAssumption DEF InStep, LoggerInv, Submitted, Alive, Waiting, CleanExit, LoggerAssumption
<1> QED
  BY <1>1, <1>2, <1>3, <1>4, ProcessTypeCorrect, ImplementsLogger, LoggerInvariant, PTL
===============================================================================
