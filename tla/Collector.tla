-------------------------------- MODULE Collector --------------------------------
(***************************************************************************)
(* The metrics collector (app/metrics_collector.py) and the lifespan of    *)
(* the application that starts and cancels it (app/main.py).               *)
(*                                                                         *)
(* The collector is a task on the event loop.  It connects, loads the      *)
(* addresses of server_info once, and then in every cycle asks Prometheus  *)
(* for one metric after the other and stores what it got in a single       *)
(* executemany.  An action is what happens from one await to the next; at  *)
(* each of them the task can be cancelled, or the process die.             *)
(***************************************************************************)
EXTENDS Naturals, Sequences

CONSTANTS
  Servers,          \* server_info.id
  Addresses,        \* what Prometheus may report as the host of an instance
  Loopback,         \* 127.0.0.1
  PrometheusAddr,   \* PROMETHEUS_SERVER_IP
  Metrics,          \* number of METRICS, 5 in the code
  Layouts,          \* server_info: the private and public address of each server
  Times,            \* what the clock may say when a cycle begins
  MaxCycles,        \* bound: collection cycles, of all processes together
  MaxEdits          \* bound: changes of server_info

ASSUME CollectorAssumption ==
  /\ Loopback \in Addresses /\ PrometheusAddr \in Addresses
  /\ Loopback # PrometheusAddr
  /\ Layouts \subseteq [Servers -> SUBSET Addresses]
  /\ Metrics \in Nat \ {0}
  /\ MaxCycles \in Nat /\ MaxEdits \in Nat

VARIABLES
  app,       \* the process
  task,      \* the await its collector is at
  pool,      \* the collector's connections
  table,     \* ip_to_id, as pairs of an address and its server
  metric,    \* the metric it asks for
  records,   \* what it has gathered in this cycle
  cycle,     \* history: cycles begun
  time,      \* history: collected_at of each
  batch,     \* history: what each cycle set out to store
  rows,      \* table server_metrics
  present,   \* external: the ids in server_info
  layout,    \* external: and the addresses there
  edits,     \* external: how often it was changed
  edited     \* history: it was changed since ip_to_id was loaded

gathering == <<metric, records>>
begun == <<cycle, time>>
store == <<batch, rows>>
info == <<present, layout, edits, edited>>
vars == <<app, task, pool, table, gathering, begun, store, info>>

\* One row of server_metrics, but for collected_at, which is that of its cycle, and the
\* value.
Record == [cycle : 1 .. MaxCycles, metric : 1 .. Metrics,
           addr : Addresses, server : Servers]

InLoop == task \in {"fetch", "insert", "sleep"}

TypeOK ==
  /\ app \in {"down", "serving", "stopping"}
  /\ task \in {"none", "connect", "load", "fetch", "insert", "sleep", "closing", "ended",
               "failed"}
  /\ pool \in {"none", "open", "closed"}
  /\ table \subseteq Addresses \X Servers
  /\ metric \in 1 .. Metrics + 1
  /\ records \subseteq Record
  /\ cycle \in 0 .. MaxCycles
  /\ time \in Seq(Times) /\ Len(time) = cycle
  /\ batch \in [1 .. MaxCycles -> SUBSET Record]
  /\ rows \subseteq Record
  /\ present \subseteq Servers
  /\ layout \in [Servers -> SUBSET Addresses]
  /\ edits \in 0 .. MaxEdits
  /\ edited \in BOOLEAN

Init ==
  /\ app = "down" /\ task = "none" /\ pool = "none"
  /\ table = {}
  /\ metric = 1 /\ records = {}
  /\ cycle = 0 /\ time = <<>>
  /\ batch = [c \in 1 .. MaxCycles |-> {}]
  /\ rows = {}
  /\ present = Servers
  /\ layout \in Layouts
  /\ edits = 0 /\ edited = FALSE

-------------------------------------------------------------------------------
(* Start-up *)

Boot ==
  /\ app = "down"
  /\ app' = "serving" /\ task' = "connect" /\ pool' = "none"
  /\ table' = {} /\ metric' = 1 /\ records' = {}
  /\ UNCHANGED <<begun, store, info>>

Connect ==
  /\ task = "connect"
  /\ task' = "load" /\ pool' = "open"
  /\ UNCHANGED <<app, table, gathering, begun, store, info>>

\* sys.exit(1) in a task leaves the event loop, and the process ends.
ConnectFails ==
  /\ task = "connect"
  /\ app' = "down" /\ task' = "none"
  /\ UNCHANGED <<pool, table, gathering, begun, store, info>>

\* The rows come in any order, and an address in two of them is left to the later
\* one.  Loopback becomes the server Prometheus runs on, if that is listed.
Claims == {t \in Addresses \X present : t[1] \in layout[t[2]]}
Resolved == {t \in SUBSET Claims : \A c \in Claims : \E u \in t : u[1] = c[1] /\
                                   \A v \in t : v[1] = u[1] => v = u}
\* ip_to_id.get(PROMETHEUS_SERVER_IP), unchecked.
BugUnlistedHost(t) ==
  t \union {<<Loopback, IF \E s \in Servers : <<PrometheusAddr, s>> \in t
                           THEN CHOOSE s \in Servers : <<PrometheusAddr, s>> \in t
                           ELSE "None">>}
\* `setdefault` instead of the assignment.
BugKeepLoopback(t) ==
  t \union IF \E u \in t : u[1] = Loopback THEN {}
           ELSE {<<Loopback, u[2]>> : u \in {v \in t : v[1] = PrometheusAddr}}
WithLoopback(t) ==
  LET host == {u[2] : u \in {v \in t : v[1] = PrometheusAddr}}
  IN {u \in t : u[1] = Loopback => host = {}} \union {<<Loopback, s>> : s \in host}

\* `records` made once, outside the cycle.
BugKeepRecords ==
  /\ cycle < MaxCycles
  /\ cycle' = cycle + 1
  /\ \E t \in Times : time' = Append(time, t)
  /\ metric' = 1 /\ UNCHANGED records
  /\ task' = "fetch"
BeginCycle ==
  /\ cycle < MaxCycles
  /\ cycle' = cycle + 1
  /\ \E t \in Times : time' = Append(time, t)
  /\ metric' = 1 /\ records' = {}
  /\ task' = "fetch"

Load ==
  /\ task = "load"
  /\ \E t \in Resolved : table' = WithLoopback(t)
  /\ edited' = FALSE
  /\ BeginCycle
  /\ UNCHANGED <<app, pool, store, present, layout, edits>>

\* The exception ends the task; nobody looks at it before the shutdown.
LoadFails ==
  /\ task = "load"
  /\ task' = "failed"
  /\ UNCHANGED <<app, pool, table, gathering, begun, store, info>>

-------------------------------------------------------------------------------
(* A cycle *)

\* A metric's answer has a value for any of the hosts, or for none if the request
\* failed; hosts that are not in the table are skipped.
Fetch ==
  /\ task = "fetch" /\ metric <= Metrics
  /\ \E reporting \in SUBSET Addresses :
       records' = records \union
         {[cycle |-> cycle, metric |-> metric, addr |-> t[1], server |-> t[2]] :
            t \in {u \in table : u[1] \in reporting}}
  /\ metric' = metric + 1
  /\ UNCHANGED <<app, task, pool, table, begun, store, info>>

Gathered ==
  /\ task = "fetch" /\ metric = Metrics + 1
  /\ task' = IF records = {} THEN "sleep" ELSE "insert"
  /\ batch' = [batch EXCEPT ![cycle] = records]
  /\ UNCHANGED <<app, pool, table, gathering, begun, rows, info>>

\* main() without its inner `try`.
BugCycleKillsTask ==
  /\ task = "fetch"
  /\ task' = "failed"
  /\ UNCHANGED <<app, pool, table, gathering, begun, store, info>>
\* A value that is no text is a TypeError collect_and_store does not expect; main
\* survives it and the cycle is lost.
CycleBreaks ==
  /\ task = "fetch"
  /\ task' = "sleep"
  /\ UNCHANGED <<app, pool, table, gathering, begun, store, info>>

\* executemany is one transaction, and a row of a server that is no longer in
\* server_info makes the foreign key refuse all of it.
Stored ==
  /\ \A r \in records : r.server \in present
  /\ rows' = rows \union records

Insert ==
  /\ task = "insert"
  /\ Stored
  /\ task' = "sleep"
  /\ UNCHANGED <<app, pool, table, gathering, begun, batch, info>>

\* The foreign key, or a fault of the database.
InsertFails ==
  /\ task = "insert"
  /\ task' = "sleep"
  /\ UNCHANGED <<app, pool, table, gathering, begun, store, info>>

Wake ==
  /\ task = "sleep"
  /\ BeginCycle
  /\ UNCHANGED <<app, pool, table, store, info>>

-------------------------------------------------------------------------------
(* The end *)

\* Rows committed one by one.
BugNoTransaction ==
  \E some \in SUBSET {r \in records : r.server \in present} :
    /\ task = "insert" \/ some = {}
    /\ rows' = rows \union some
\* An insert that is cut short may or may not have been committed.
CutShort == (task = "insert" /\ Stored) \/ UNCHANGED rows

\* `except BaseException` in the loop.
BugSwallowCancel ==
  /\ task' = IF InLoop THEN "sleep" ELSE IF task = "failed" THEN "failed" ELSE "ended"
  /\ CutShort
\* task.cancel(): CancelledError is no Exception.  Inside the loop it leads to the
\* `finally`, before the loop it ends the task at once; a task that has failed
\* stays so.
Cancel ==
  /\ task' = IF InLoop THEN "closing" ELSE IF task = "failed" THEN "failed" ELSE "ended"
  /\ CutShort

Stop ==
  /\ app = "serving"
  /\ app' = "stopping"
  /\ Cancel
  /\ UNCHANGED <<pool, table, gathering, begun, batch, info>>

ClosePool ==
  /\ task = "closing"
  /\ task' = "ended" /\ pool' = "closed"
  /\ UNCHANGED <<app, table, gathering, begun, store, info>>

\* `await task` is over, or raises what the task failed with.
Exit ==
  /\ app = "stopping" /\ task \in {"ended", "failed"}
  /\ app' = "down" /\ task' = "none"
  /\ UNCHANGED <<pool, table, gathering, begun, store, info>>

Crash ==
  /\ app # "down"
  /\ app' = "down" /\ task' = "none"
  /\ CutShort
  /\ UNCHANGED <<pool, table, gathering, begun, batch, info>>

-------------------------------------------------------------------------------
(* server_info, which no code of the application writes *)

\* ON DELETE CASCADE
Remove(s) ==
  /\ s \in present /\ edits < MaxEdits
  /\ present' = present \ {s}
  /\ rows' = {r \in rows : r.server # s}
  /\ edits' = edits + 1 /\ edited' = TRUE
  /\ UNCHANGED <<app, task, pool, table, gathering, begun, batch, layout>>

Readdress(l) ==
  /\ l # layout /\ edits < MaxEdits
  /\ layout' = l
  /\ edits' = edits + 1 /\ edited' = TRUE
  /\ UNCHANGED <<app, task, pool, table, gathering, begun, store, present>>

-------------------------------------------------------------------------------
Step == \/ Connect \/ ConnectFails \/ Load \/ LoadFails
        \/ Fetch \/ Gathered \/ CycleBreaks \/ Insert \/ InsertFails \/ Wake
        \/ ClosePool \/ Exit

Next == \/ Boot \/ Step \/ Stop \/ Crash
        \/ \E s \in Servers : Remove(s)
        \/ \E l \in Layouts : Readdress(l)

Spec == Init /\ [][Next]_vars

\* The loop goes on and what is awaited ends, if only in an error or a timeout.
FairSpec == Spec /\ WF_vars(Step)

-------------------------------------------------------------------------------
(* Properties *)

\* A cycle is in server_metrics as a whole or not at all, whatever cancels, breaks
\* or outlives its insert; only the deletion of a server takes rows out of it
\* again (metrics_collector.py 160-171, init.sql 125-128).
WholeCycles ==
  \A c \in 1 .. MaxCycles :
    {r \in rows : r.cycle = c} \in {{}, {r \in batch[c] : r.server \in present}}

\* Unless server_info was edited since the collector loaded it, a value is stored
\* for the server it was measured on: the one that has the address, and for
\* Loopback the one Prometheus runs on (metrics_collector.py 77-85).
Owns(s, a) ==
  IF a = Loopback /\ \E o \in present : PrometheusAddr \in layout[o]
    THEN PrometheusAddr \in layout[s]
    ELSE a \in layout[s]
RightServer ==
  [][\A r \in rows' \ rows : ~edited => Owns(r.server, r.addr)]_vars

\* The readers of server_metrics get what MetricsLog promises them: a cycle is stored
\* at once and after all others, and nothing is added to it later, whatever is lost,
\* cancelled or restarted in between (metrics_collector.py 122-171).
Log == INSTANCE MetricsLog WITH Hosts <- Addresses \X Servers
KeepsLog == Log!LogSpec

\* No cycle ends the collection: while the process serves, a cycle under way
\* comes to its end and leaves the task waiting for the next
\* (metrics_collector.py 181-187).
KeepsCollecting == task = "fetch" ~> task = "sleep" \/ app # "serving"

\* The shutdown ends, and it ends the collector, wherever it was cancelled
\* (main.py 33-38).
ShutdownEnds == app = "stopping" ~> app = "down"
===============================================================================
