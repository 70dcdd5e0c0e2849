------------------------------- MODULE MetricsLog -------------------------------
(***************************************************************************)
(* What the readers of server_metrics may assume of its writer: the table  *)
(* grows by batches, each of the cycle that began last, at most once for a *)
(* cycle and for servers that exist, and shrinks only when a server is     *)
(* deleted.  Collector implements this specification, and MetricsQuery     *)
(* reads the tables it allows.                                             *)
(***************************************************************************)
EXTENDS Naturals, Sequences

CONSTANTS
  Servers, Addresses, Metrics,
  Hosts,     \* pairs of an address and a server it may be stored for
  Times,     \* values of collected_at
  MaxCycles  \* bound: collection cycles

VARIABLES
  rows,      \* table server_metrics
  present,   \* the ids in server_info
  cycle,     \* cycles begun
  time       \* collected_at of each, a wall-clock time that may stand still or step back

logged == <<rows, present, cycle, time>>

Row == [cycle : 1 .. MaxCycles, metric : 1 .. Metrics,
        addr : Addresses, server : Servers]

LogTypeOK ==
  /\ rows \subseteq {r \in Row : r.cycle <= cycle /\ r.server \in present}
  /\ present \subseteq Servers
  /\ cycle \in 0 .. MaxCycles
  /\ time \in Seq(Times) /\ Len(time) = cycle

LogInit == rows = {} /\ present = Servers /\ cycle = 0 /\ time = <<>>

Begin ==
  /\ cycle < MaxCycles
  /\ cycle' = cycle + 1
  /\ \E t \in Times : time' = Append(time, t)
  /\ UNCHANGED <<rows, present>>

\* What there is to store: answers for some metrics and hosts.
Gatherable == {r \in Row : /\ r.cycle = cycle /\ <<r.addr, r.server>> \in Hosts
                           /\ r.server \in present}
Store ==
  /\ \A r \in rows : r.cycle < cycle
  /\ \E batch \in SUBSET Gatherable : rows' = rows \union batch
  /\ UNCHANGED <<present, cycle, time>>

RemoveServer(s) ==
  /\ s \in present
  /\ present' = present \ {s}
  /\ rows' = {r \in rows : r.server # s}
  /\ UNCHANGED <<cycle, time>>

LogNext == Begin \/ Store \/ \E s \in Servers : RemoveServer(s)

LogSpec == LogInit /\ [][LogNext]_logged
===============================================================================
