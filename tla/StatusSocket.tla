------------------------------- MODULE StatusSocket -------------------------------
(***************************************************************************)
(* /ws/server-status (server_status.py): one handler per connection on the *)
(* event loop runs ps, sends its output and sleeps, for ever.  It never    *)
(* receives: that a client is gone, or that the server stops, it learns    *)
(* from a send that fails.                                                 *)
(***************************************************************************)
CONSTANT Clients

VARIABLES
  link,       \* per connection: "none", "up", "stalled" when the client does not read,
              \* "down"
  pc,         \* per connection: where its handler is
  failed,     \* history: connections for which ps failed
  told,       \* history: clients that got the error message
  cut,        \* history: connections that went down other than by websocket.close()
  server      \* "up", "stopping", "ended"

vars == <<link, pc, failed, told, cut, server>>

Awaits == {"accept", "send", "sleep", "error", "close"}

TypeOK ==
  /\ link \in [Clients -> {"none", "up", "stalled", "down"}]
  /\ pc \in [Clients -> Awaits \union {"none", "turn", "done"}]
  /\ failed \in SUBSET Clients /\ told \in SUBSET failed /\ cut \in SUBSET Clients
  /\ server \in {"up", "stopping", "ended"}

Init ==
  /\ link = [c \in Clients |-> "none"] /\ pc = [c \in Clients |-> "none"]
  /\ failed = {} /\ told = {} /\ cut = {}
  /\ server = "up"

Goto(c, there) == pc' = [pc EXCEPT ![c] = there]

-------------------------------------------------------------------------------
(* The handler; a send or close waits while the client does not read *)

LoopFree == \A c \in Clients : pc[c] # "turn"

Connect(c) ==
  /\ LoopFree
  /\ server = "up" /\ pc[c] = "none"
  /\ link' = [link EXCEPT ![c] = "up"]
  /\ Goto(c, "accept")
  /\ UNCHANGED <<failed, told, cut, server>>

\* Behind the await of accept, and behind that of sleep.
Turn(c) ==
  /\ LoopFree
  /\ pc[c] = "sleep" \/ (pc[c] = "accept" /\ link[c] = "up")
  /\ Goto(c, "turn")
  /\ UNCHANGED <<link, failed, told, cut, server>>

\* subprocess.check_output holds the loop until ps has ended.
Ps(c) ==
  /\ pc[c] = "turn"
  /\ Goto(c, "send")
  /\ UNCHANGED <<link, failed, told, cut, server>>

\* Closed without the message.
BugCloseFirst(c) ==
  /\ pc[c] = "turn"
  /\ failed' = failed \union {c}
  /\ Goto(c, "close")
  /\ UNCHANGED <<link, told, cut, server>>
PsFails(c) ==
  /\ pc[c] = "turn"
  /\ failed' = failed \union {c}
  /\ Goto(c, "error")
  /\ UNCHANGED <<link, told, cut, server>>

Sent(c) ==
  /\ LoopFree
  /\ pc[c] = "send" /\ link[c] = "up"
  /\ Goto(c, "sleep")
  /\ UNCHANGED <<link, failed, told, cut, server>>

Told(c) ==
  /\ LoopFree
  /\ pc[c] = "error" /\ link[c] = "up"
  /\ told' = told \union {c}
  /\ Goto(c, "close")
  /\ UNCHANGED <<link, failed, cut, server>>

Close(c) ==
  /\ LoopFree
  /\ pc[c] = "close" /\ link[c] = "up"
  /\ link' = [link EXCEPT ![c] = "down"]
  /\ Goto(c, "done")
  /\ UNCHANGED <<failed, told, cut, server>>

\* The loop goes on over a send that failed.
BugStayOn(c) ==
  /\ LoopFree
  /\ pc[c] \in Awaits \ {"sleep"} /\ link[c] = "down"
  /\ Goto(c, IF pc[c] = "send" THEN "sleep" ELSE "done")
  /\ UNCHANGED <<link, failed, told, cut, server>>
\* WebSocketDisconnect, or the second exception that is only logged.
Disconnected(c) ==
  /\ LoopFree
  /\ pc[c] \in Awaits \ {"sleep"} /\ link[c] = "down"
  /\ Goto(c, "done")
  /\ UNCHANGED <<link, failed, told, cut, server>>

Handler(c) ==
  Turn(c) \/ Ps(c) \/ PsFails(c) \/ Sent(c) \/ Told(c) \/ Close(c) \/ Disconnected(c)

-------------------------------------------------------------------------------
(* Clients and the server *)

\* The client leaves, or the pings of the server stay without an answer.
Drop(c) ==
  /\ link[c] \in {"up", "stalled"}
  /\ link' = [link EXCEPT ![c] = "down"]
  /\ cut' = cut \union {c}
  /\ UNCHANGED <<pc, failed, told, server>>

Stall(c) ==
  /\ link[c] = "up"
  /\ link' = [link EXCEPT ![c] = "stalled"]
  /\ UNCHANGED <<pc, failed, told, cut, server>>

Read(c) ==
  /\ link[c] = "stalled"
  /\ link' = [link EXCEPT ![c] = "up"]
  /\ UNCHANGED <<pc, failed, told, cut, server>>

\* uvicorn fails every connection, and waits for the handlers before the lifespan ends.
Stop ==
  /\ LoopFree
  /\ server = "up"
  /\ server' = "stopping"
  /\ link' = [c \in Clients |-> IF link[c] = "none" THEN "none" ELSE "down"]
  /\ cut' = cut \union {c \in Clients : link[c] \in {"up", "stalled"}}
  /\ UNCHANGED <<pc, failed, told>>

End ==
  /\ server = "stopping"
  /\ \A c \in Clients : pc[c] \in {"none", "done"}
  /\ server' = "ended"
  /\ UNCHANGED <<link, pc, failed, told, cut>>

\* The process dies, its handlers and sockets with it.
Kill ==
  /\ server' = "ended"
  /\ link' = [c \in Clients |-> IF link[c] = "none" THEN "none" ELSE "down"]
  /\ pc' = [c \in Clients |-> IF pc[c] = "none" THEN "none" ELSE "done"]
  /\ cut' = cut \union {c \in Clients : link[c] \in {"up", "stalled"}}
  /\ UNCHANGED <<failed, told>>

Next ==
  \/ \E c \in Clients : Connect(c) \/ Handler(c) \/ Drop(c) \/ Stall(c) \/ Read(c)
  \/ Stop \/ End \/ Kill

Spec == Init /\ [][Next]_vars

-------------------------------------------------------------------------------
(* Properties *)

\* A client that stays hears why its connection ends (server_status.py 40-58).
ErrorIsTold ==
  \A c \in Clients : pc[c] = "done" => c \in told \union cut
===============================================================================
